---- MODULE Spec2Model ----
(***************************************************************************)
(* Library management system: the sequence allocator (utils/idGen.js,      *)
(* models/Counter.js) and the copy ledger of the book controller           *)
(* (controllers/bookController.js), as state machines over the document    *)
(* store, and the admin login with the routes behind it (server.js,        *)
(* routes/userRoutes.js).  Every awaited store operation of a handler is   *)
(* one atomic step; requests of different callers interleave between those *)
(* steps.                                                                  *)
(***************************************************************************)
EXTENDS Integers, Sequences, FiniteSets, TLC

VARIABLES
  counters,   \* Counter collection: namespace (_id) -> seq, for the documents that exist
  books,      \* Book collection: _id -> document, for the documents that exist
  users,      \* User collection: _id -> document, for the documents that exist
  req,        \* per caller: the request in flight and its locals
  returned,   \* history: the identifiers returned by getNextSequence, in order of return
  tally,      \* history: how many requests of each kind started and how each ended
  started,    \* number of requests started so far
  nextKey,    \* number of Book documents inserted so far (an _id is never reused)
  quota,      \* how many callers there are, how many requests they make in all,
              \* and whether the trail keeps the forms of the add requests
  fresh,      \* the namespaces that had no counter document initially
  avail0,     \* AvailableCopies of the ledger's book initially
  trail,      \* history: the last two completed book requests, kept when a
              \* single caller makes its requests one after the other, and
              \* whenever the forms are kept
  deleted,    \* history: the codes of the Book documents deleted so far, by _id
  jar         \* the cookies the caller's browser holds and sends with every
              \* request: name-value pairs in the order of the Cookie header

vars ==
  <<counters, books, users, req, returned, tally, started, nextKey, quota, fresh, avail0,
    trail, deleted, jar>>

(***************************************************************************)
(* Bounds of the model.                                                    *)
(***************************************************************************)
\* the allocator alone: callers and requests
AllocProcs == 3
AllocRequests == 4
\* issue requests alone: callers, requests, largest total of the book
IssueProcs == 4
IssueRequests == 4
IssueTotal == 3
\* issue and return requests: callers, requests, largest total of the book
LedgerProcs == 2
LedgerRequests == 5
LedgerTotal == 2
\* member registrations: callers and requests
MemberProcs == 3
MemberRequests == 3

MaxOf(S) == CHOOSE n \in S : \A m \in S : m <= n

Procs == 1..MaxOf({AllocProcs, IssueProcs, LedgerProcs, MemberProcs})

NULL == "null"

\* an optional number (a form field, a local): << >> is undefined, <<n>> is n
Undef == << >>
Some(n) == <<n>>
IsDef(x) == x # << >>
Val(x) == x[1]

Last(s) == s[Len(s)]

Max(a, b) == IF a >= b THEN a ELSE b
Min(a, b) == IF a <= b THEN a ELSE b

(***************************************************************************)
(* Strings: decimal formatting and parsing, String.prototype.padStart.     *)
(***************************************************************************)
DigitChar(d) ==
  CASE d = 0 -> "0" [] d = 1 -> "1" [] d = 2 -> "2" [] d = 3 -> "3"
    [] d = 4 -> "4" [] d = 5 -> "5" [] d = 6 -> "6" [] d = 7 -> "7"
    [] d = 8 -> "8" [] d = 9 -> "9"

DigitVal(c) ==
  CASE c = "0" -> 0 [] c = "1" -> 1 [] c = "2" -> 2 [] c = "3" -> 3
    [] c = "4" -> 4 [] c = "5" -> 5 [] c = "6" -> 6 [] c = "7" -> 7
    [] c = "8" -> 8 [] c = "9" -> 9 [] OTHER -> -1

\* /^\d+$/.test(s)
IsDigits(s) == Len(s) > 0 /\ \A i \in 1..Len(s) : DigitVal(SubSeq(s, i, i)) >= 0

\* Number(s) of a string of decimal digits
RECURSIVE DigitsValue(_)
DigitsValue(s) ==
  IF Len(s) = 0 THEN 0
  ELSE 10 * DigitsValue(SubSeq(s, 1, Len(s) - 1)) + DigitVal(SubSeq(s, Len(s), Len(s)))

\* Number.prototype.toString of a non-negative integer
RECURSIVE toString(_)
toString(n) ==
  IF n < 10 THEN DigitChar(n) ELSE toString(n \div 10) \o DigitChar(n % 10)

\* a slip of the padding: the zeros go to the end
RECURSIVE padEnd(_, _)
padEnd(s, width) ==
  IF Len(s) >= width THEN s ELSE padEnd(s \o "0", width)

\* String.prototype.padStart(width, "0")
RECURSIVE padStart(_, _)
padStart(s, width) ==
  IF Len(s) >= width THEN s ELSE padStart("0" \o s, width)

(***************************************************************************)
(* utils/idGen.js                                                          *)
(***************************************************************************)
MemberPrefix == "AIPSMEM"
BookPrefix == "AIPSLIB"
MemberWidth == 4
BookWidth == 6
Namespaces == {MemberPrefix, BookPrefix}

\* a slip of the increment: $set to the value read instead of $inc
IncSeqStale(cs, prefix) ==
  IF prefix \in DOMAIN cs THEN cs[prefix] ELSE 1

\* a slip of the increment: the step is 2
IncSeqTwice(cs, prefix) ==
  IF prefix \in DOMAIN cs THEN cs[prefix] + 2 ELSE 2

\* { $inc: { seq: 1 } } with upsert: a missing document counts from 0
IncSeq(cs, prefix) ==
  IF prefix \in DOMAIN cs THEN cs[prefix] + 1 ELSE 1

\* a slip of the filter: the increment is applied to every counter document
CounterUpsertAll(cs, prefix) ==
  [n \in (DOMAIN cs) \cup {prefix} |-> IncSeq(cs, n)]

\* Counter.findOneAndUpdate({_id: prefix}, {$inc: {seq: 1}}, {new: true, upsert: true})
CounterUpsert(cs, prefix) ==
  [n \in (DOMAIN cs) \cup {prefix} |-> IF n = prefix THEN IncSeq(cs, prefix) ELSE cs[n]]

\* `${prefix}${doc.seq.toString().padStart(width, "0")}`
FormatId(prefix, seq, width) == prefix \o padStart(toString(seq), width)

NoBook ==
  [key |-> NULL, BookID |-> "", TotalCopies |-> 0, AvailableCopies |-> 0,
   borrowers |-> << >>, v |-> 0]

\* the paths of a loaded document that were modified and await save()
NoDirty == [TotalCopies |-> Undef, AvailableCopies |-> Undef, borrowers |-> Undef]

\* the fields of a request body, none of them sent
NoForm ==
  [fullName |-> NULL, phone |-> NULL, email |-> NULL, memberType |-> NULL, gender |-> NULL]

\* a caller with no request in flight
Idle ==
  [op |-> "idle", pc |-> "idle", userId |-> NULL, member |-> NULL, book |-> NoBook,
   dirty |-> NoDirty, ns |-> NULL, width |-> 0, seq |-> 0, tot |-> Undef, av |-> Undef,
   form |-> NoForm]

Bump(t, k) == [t EXCEPT ![k] = @ + 1]

\* the trail after a request ends: its kind, its outcome, the member
\* reference sent, and the book as the request found it and as it left it
Note(op, result, userId, before, after) ==
  IF quota.procs = 1 \/ quota.forms
  THEN LET e == [op |-> op, result |-> result, userId |-> userId,
                 before |-> before, after |-> after]
       IN  IF Len(trail) = 0 THEN <<e>> ELSE <<Last(trail), e>>
  ELSE trail

\* the trail after a request ends that found no book to act on: its kind,
\* its outcome and, when the trail keeps the forms, the book reference sent
NoteMiss(op, result, token) ==
  IF quota.procs = 1 \/ quota.forms
  THEN LET e == [op |-> op, result |-> result, userId |-> NULL,
                 before |-> NoBook, after |-> NoBook,
                 token |-> IF quota.forms THEN token ELSE NULL]
       IN  IF Len(trail) = 0 THEN <<e>> ELSE <<Last(trail), e>>
  ELSE trail

\* a new request is taken by the first caller that has none in flight (the
\* callers are interchangeable) while the budget of requests lasts
CanStart(p) ==
  /\ p <= quota.procs
  /\ req[p].pc = "idle"
  /\ \A q \in 1..(p - 1) : req[q].pc # "idle"
  /\ started < quota.requests

\* getNextSequence, up to its await: the atomic increment of the counter document
getNextSequence(p, prefix, width) ==
  /\ CanStart(p)
  /\ started' = started + 1
  /\ counters' = CounterUpsert(counters, prefix)
  /\ req' = [req EXCEPT ![p] = [Idle EXCEPT !.op = "allocate", !.pc = "format",
                                            !.ns = prefix, !.width = width,
                                            !.seq = counters'[prefix]]]
  /\ UNCHANGED <<books, users, returned, tally, nextKey, quota, fresh, avail0, trail, deleted, jar>>

\* getNextSequence, after its await: the identifier is built and returned
getNextSequenceReturn(p) ==
  /\ req[p].op = "allocate"
  /\ req[p].pc = "format"
  /\ returned' = Append(returned,
                   [ns |-> req[p].ns, seq |-> req[p].seq, width |-> req[p].width,
                    id |-> FormatId(req[p].ns, req[p].seq, req[p].width)])
  /\ req' = [req EXCEPT ![p] = Idle]
  /\ UNCHANGED <<counters, books, users, tally, started, nextKey, quota, fresh, avail0, trail, deleted, jar>>

generateMemberID(p) == getNextSequence(p, MemberPrefix, MemberWidth)

generateBookID(p) == getNextSequence(p, BookPrefix, BookWidth)

TallyKeys ==
  {"issue", "issue:success", "issue:noCopiesAvailable", "issue:notFound", "issue:error",
   "return", "return:success", "return:allCopiesAlreadyReturned", "return:notFound",
   "return:error",
   "add", "add:created", "add:error",
   "update", "update:updated", "update:notFound", "update:failed",
   "delete",
   "member", "member:created", "member:invalid", "member:duplicate", "member:error",
   "lookup", "lookup:found", "lookup:notFound", "lookup:error",
   "login", "login:missing", "login:ok", "login:invalid", "logout", "loginForm"}

(***************************************************************************)
(* The allocator alone: callers mint member and book identifiers.          *)
(***************************************************************************)
\* sequence values a long-lived namespace may stand at
InitSeqs == {9, 9999, 999999}

InitCounters ==
  UNION {[D -> InitSeqs] : D \in SUBSET Namespaces}

InitAlloc ==
  /\ counters \in InitCounters
  /\ books = << >>
  /\ users = << >>
  /\ req = [p \in Procs |-> Idle]
  /\ returned = << >>
  /\ tally = [k \in TallyKeys |-> 0]
  /\ started = 0
  /\ nextKey = 0
  /\ quota = [procs |-> AllocProcs, requests |-> AllocRequests, forms |-> FALSE]
  /\ fresh = Namespaces \ DOMAIN counters
  /\ avail0 = 0
  /\ trail = << >>
  /\ deleted = << >>
  /\ jar = << >>

NextAlloc ==
  \E p \in Procs :
    \/ generateMemberID(p)
    \/ generateBookID(p)
    \/ getNextSequenceReturn(p)

SpecAlloc == InitAlloc /\ [][NextAlloc]_vars

(***************************************************************************)
(* controllers/bookController.js: helpers and findBookByParam.             *)
(***************************************************************************)
\* the _id values the store gives to the Book documents, in insertion order
BookKeys == <<"b00000000000000000000001", "b00000000000000000000002">>
\* the _id values of the User documents
UserKeys == {"a00000000000000000000001", "a00000000000000000000002"}

\* the User document of a member: the fields createMember stores
Member(memberID, fullName, phone, email, memberType, gender) ==
  [memberID |-> memberID, fullName |-> fullName, phone |-> phone, email |-> email,
   memberType |-> memberType, gender |-> gender]

\* the two members registered when the counter stood at n - 1 and at n
RegisteredAt(n) ==
  [k \in UserKeys |->
     IF k = "a00000000000000000000001"
     THEN Member(FormatId(MemberPrefix, n - 1, MemberWidth), "Ann", NULL, "ann@x.org",
                 "student", "female")
     ELSE Member(FormatId(MemberPrefix, n, MemberWidth), "Bob", "0300-1234567", NULL,
                 "teacher", "male")]

\* the members of the library whose books are issued and returned
Registered == RegisteredAt(2)

KeyIndex(k) == CHOOSE i \in DOMAIN BookKeys : BookKeys[i] = k

\* String.prototype.trim
RECURSIVE trim(_)
trim(s) ==
  IF Len(s) = 0 THEN s
  ELSE IF Head(s) = " " THEN trim(Tail(s))
  ELSE IF SubSeq(s, Len(s), Len(s)) = " " THEN trim(SubSeq(s, 1, Len(s) - 1))
  ELSE s

\* norm: String(v).trim(), "" for null and undefined
norm(v) == IF v = NULL THEN "" ELSE trim(v)

LowerLetters == "abcdefghijklmnopqrstuvwxyz"
UpperLetters == "ABCDEFGHIJKLMNOPQRSTUVWXYZ"

UpperChar(c) ==
  IF \E i \in 1..Len(LowerLetters) : SubSeq(LowerLetters, i, i) = c
  THEN LET i == CHOOSE j \in 1..Len(LowerLetters) : SubSeq(LowerLetters, j, j) = c
       IN  SubSeq(UpperLetters, i, i)
  ELSE c

\* case folding of the "i" flag of a regular expression
RECURSIVE upper(_)
upper(s) == IF Len(s) = 0 THEN s ELSE UpperChar(Head(s)) \o upper(Tail(s))

HexChars == "0123456789abcdefABCDEF"

\* ObjectId.isValid of a string: 24 hexadecimal characters
ObjectIdIsValid(s) ==
  /\ Len(s) = 24
  /\ \A i \in 1..24 : \E j \in 1..Len(HexChars) : SubSeq(HexChars, j, j) = SubSeq(s, i, i)

\* s matches /^0*$/
RECURSIVE AllZeros(_)
AllZeros(s) == Len(s) = 0 \/ (Head(s) = "0" /\ AllZeros(Tail(s)))

\* code matches new RegExp(`^AIPSLIB0*${n}$`, "i")
MatchesTail(code, n) ==
  LET c == upper(code)
      d == toString(n)
      pre == Len(BookPrefix)
  IN  /\ Len(c) >= pre + Len(d)
      /\ SubSeq(c, 1, pre) = BookPrefix
      /\ SubSeq(c, Len(c) - Len(d) + 1, Len(c)) = d
      /\ AllZeros(SubSeq(c, pre + 1, Len(c) - Len(d)))

\* a slip of the options: the "i" flag is left out
RECURSIVE MatchesPatternExact(_, _)
MatchesPatternExact(code, raw) ==
  IF Len(raw) = 0 THEN Len(code) = 0
  ELSE /\ Len(code) > 0
       /\ (Head(raw) = "." \/ Head(raw) = Head(code))
       /\ MatchesPatternExact(Tail(code), Tail(raw))

\* the store can compile `^${raw}$`: raw is made of letters, digits, "." and
\* "(", and a "(" in it is never closed
ValidPattern(raw) == \A i \in 1..Len(raw) : SubSeq(raw, i, i) # "("

\* code matches { $regex: `^${raw}$`, $options: "i" }: raw is used as the
\* pattern as it is, so a "." in it stands for any character
RECURSIVE MatchesPattern(_, _)
MatchesPattern(code, raw) ==
  IF Len(raw) = 0 THEN Len(code) = 0
  ELSE /\ Len(code) > 0
       /\ (Head(raw) = "." \/ UpperChar(Head(raw)) = UpperChar(Head(code)))
       /\ MatchesPattern(Tail(code), Tail(raw))

\* Book.findOne(filter): the first matching document in insertion order
FindOne(bs, Matches(_)) ==
  LET hits == {k \in DOMAIN bs : Matches(bs[k])} IN
    IF hits = {} THEN NULL
    ELSE CHOOSE k \in hits : \A h \in hits : KeyIndex(k) <= KeyIndex(h)

\* findBookByParam rejects: the store refuses the query of its last strategy
Thrown == "thrown"

\* findBookByParam: the _id of the document found, or NULL, or Thrown
findBookByParam(bs, idOrCode) ==
  LET raw == norm(idOrCode)
      exactMatch(b) == b.BookID = raw
      exact == FindOne(bs, exactMatch)
      n == DigitsValue(raw)
      padded == BookPrefix \o padStart(toString(n), BookWidth)
      paddedMatch(b) == b.BookID = padded
      byPadded == FindOne(bs, paddedMatch)
      regexMatch(b) == MatchesTail(b.BookID, n)
      byRegex == FindOne(bs, regexMatch)
      ciMatch(b) == MatchesPattern(b.BookID, raw)
      ci == FindOne(bs, ciMatch)
  IN  IF ObjectIdIsValid(raw) /\ raw \in DOMAIN bs THEN raw
      ELSE IF exact # NULL THEN exact
      ELSE IF IsDigits(raw) /\ byPadded # NULL THEN byPadded
      ELSE IF IsDigits(raw) /\ byRegex # NULL THEN byRegex
      ELSE IF ~ValidPattern(raw) THEN Thrown
      ELSE ci

(***************************************************************************)
(* controllers/bookController.js: issueBook and returnBook.                *)
(* The schema defaults (TotalCopies 0, AvailableCopies 0, borrowers [])    *)
(* make the three fields defined in every document the handlers load.      *)
(***************************************************************************)
\* what callers send as the book reference and as the member reference
LedgerTokens == {BookKeys[1], "42", "b00000000000000000000009"}
UserIdInputs == {NULL} \cup UserKeys \cup {"a00000000000000000000009"}

\* the document a query hands to the handler
Load(bs, k) ==
  [key |-> k, BookID |-> bs[k].BookID, TotalCopies |-> bs[k].TotalCopies,
   AvailableCopies |-> bs[k].AvailableCopies, borrowers |-> bs[k].borrowers,
   v |-> bs[k].v]

\* num(book.totalCopies, book.TotalCopies, 0) ?? 0
TotalOf(book) == book.TotalCopies

\* num(book.availableCopies, book.AvailableCopies)
AvailableOf(book) == book.AvailableCopies

\* User.findById(userId): the member, or NULL (no such user, or a cast error caught)
FindUser(us, userId) == IF userId \in DOMAIN us THEN userId ELSE NULL

\* a slip of the filter: the decrement is not conditioned on a copy being available
IssueFilterAny(bs, k) == k \in DOMAIN bs

\* the filter { _id: book._id, $or: [..., { AvailableCopies: { $gt: 0 } }] }
IssueFilter(bs, k) == k \in DOMAIN bs /\ bs[k].AvailableCopies > 0

\* a slip of the update: the $push is left out of the update document
IssueUpdateDocNoPush(b, member) == [b EXCEPT !.AvailableCopies = @ - 1]

\* the update { $inc: { AvailableCopies: -1 }, $push: { borrowers: member._id } }
IssueUpdateDoc(b, member) ==
  [b EXCEPT !.AvailableCopies = @ - 1,
            !.borrowers = IF member # NULL THEN Append(@, member) ELSE @]

\* issueBook up to its first await after the lookup: resolve, pre-check
issueBook(p, id) ==
  /\ CanStart(p)
  /\ started' = started + 1
  /\ LET k == findBookByParam(books, id) IN
       IF k = NULL
       THEN /\ req' = req
            /\ tally' = Bump(Bump(tally, "issue"), "issue:notFound")
            /\ trail' = NoteMiss("issue", "notFound", id)
       ELSE IF k = Thrown
       THEN /\ req' = req
            /\ tally' = Bump(Bump(tally, "issue"), "issue:error")
            /\ trail' = NoteMiss("issue", "error", id)
       ELSE IF AvailableOf(Load(books, k)) <= 0
       THEN /\ req' = req
            /\ tally' = Bump(Bump(tally, "issue"), "issue:noCopiesAvailable")
            /\ \E userId \in UserIdInputs :
                 trail' = Note("issue", "noCopiesAvailable", userId,
                               Load(books, k), Load(books, k))
       ELSE /\ \E userId \in UserIdInputs :
                 req' = [req EXCEPT ![p] =
                           [Idle EXCEPT !.op = "issue",
                                        !.pc = IF userId # NULL THEN "user" ELSE "update",
                                        !.book = Load(books, k), !.userId = userId]]
            /\ tally' = Bump(tally, "issue")
            /\ trail' = trail
  /\ UNCHANGED <<counters, books, users, returned, nextKey, quota, fresh, avail0, deleted, jar>>

\* issueBook: member = await User.findById(userId)
issueUser(p) ==
  /\ req[p].op = "issue"
  /\ req[p].pc = "user"
  /\ req' = [req EXCEPT ![p].member = FindUser(users, req[p].userId), ![p].pc = "update"]
  /\ UNCHANGED <<counters, books, users, returned, tally, started, nextKey, quota, fresh,
                 avail0, trail, deleted, jar>>

\* the book with _id k as a later query finds it, NoBook when it is gone
Reload(bs, k) == IF k \in DOMAIN bs THEN Load(bs, k) ELSE NoBook

\* issueBook: the conditional findOneAndUpdate and the response
issueUpdate(p) ==
  /\ req[p].op = "issue"
  /\ req[p].pc = "update"
  /\ LET k == req[p].book.key IN
       /\ IF IssueFilter(books, k)
          THEN /\ books' = [books EXCEPT ![k] = IssueUpdateDoc(@, req[p].member)]
               /\ tally' = Bump(tally, "issue:success")
          ELSE /\ books' = books
               /\ tally' = Bump(tally, "issue:noCopiesAvailable")
       /\ trail' = Note("issue",
                        IF IssueFilter(books, k) THEN "success" ELSE "noCopiesAvailable",
                        req[p].userId, req[p].book, Reload(books', k))
  /\ req' = [req EXCEPT ![p] = Idle]
  /\ UNCHANGED <<counters, users, returned, started, nextKey, quota, fresh, avail0, deleted, jar>>

\* a slip of the cap: the count is raised without looking at the total
NewAvailableUncapped(total, available) == available + 1

\* a slip of the cap: the count is capped also when no total is recorded
NewAvailableCapped(total, available) == Min(available + 1, total)

\* total > 0 ? Math.min(available + 1, total) : available + 1
NewAvailable(total, available) ==
  IF total > 0 THEN Min(available + 1, total) ELSE available + 1

\* book.borrowers.findIndex((id) => id.toString() === userId), 0 for -1
FindIndex(bl, userId) ==
  IF \E i \in DOMAIN bl : bl[i] = userId
  THEN CHOOSE i \in DOMAIN bl : bl[i] = userId /\ \A j \in 1..(i - 1) : bl[j] # userId
  ELSE 0

\* Array.prototype.splice(idx, 1)
Splice(bl, idx) == SubSeq(bl, 1, idx - 1) \o SubSeq(bl, idx + 1, Len(bl))

\* the borrower list after the removal, Undef when the array is not touched
RemoveBorrower(bl, member, userId) ==
  IF Len(bl) = 0 THEN Undef
  ELSE IF member # NULL
  THEN IF FindIndex(bl, userId) # 0 THEN Some(Splice(bl, FindIndex(bl, userId))) ELSE Undef
  ELSE Some(Tail(bl))

\* a slip of the refusal: a full book is not refused
ReturnRefusedStrict(total, available) == total > 0 /\ available > total

\* total > 0 && available >= total
ReturnRefused(total, available) == total > 0 /\ available >= total

\* returnBook from the refusal check to the call of save()
returnDecide(p, book, userId, member, t) ==
  IF ReturnRefused(TotalOf(book), AvailableOf(book))
  THEN /\ req' = [req EXCEPT ![p] = Idle]
       /\ tally' = Bump(t, "return:allCopiesAlreadyReturned")
       /\ trail' = Note("return", "allCopiesAlreadyReturned", userId, book,
                        Reload(books, book.key))
  ELSE /\ req' = [req EXCEPT ![p] =
                    [Idle EXCEPT !.op = "return", !.pc = "save", !.book = book,
                                 !.userId = userId, !.member = member,
                                 !.dirty = [NoDirty EXCEPT
                                    !.AvailableCopies =
                                       Some(NewAvailable(TotalOf(book), AvailableOf(book))),
                                    !.borrowers =
                                       RemoveBorrower(book.borrowers, member, userId)]]]
       /\ tally' = t
       /\ trail' = trail

\* returnBook up to its first await after the lookup
returnBook(p, id) ==
  /\ CanStart(p)
  /\ started' = started + 1
  /\ LET k == findBookByParam(books, id) IN
       IF k = NULL
       THEN /\ req' = req
            /\ tally' = Bump(Bump(tally, "return"), "return:notFound")
            /\ trail' = NoteMiss("return", "notFound", id)
       ELSE IF k = Thrown
       THEN /\ req' = req
            /\ tally' = Bump(Bump(tally, "return"), "return:error")
            /\ trail' = NoteMiss("return", "error", id)
       ELSE \E userId \in UserIdInputs :
              IF userId # NULL
              THEN /\ req' = [req EXCEPT ![p] =
                                [Idle EXCEPT !.op = "return", !.pc = "user",
                                             !.book = Load(books, k), !.userId = userId]]
                   /\ tally' = Bump(tally, "return")
                   /\ trail' = trail
              ELSE returnDecide(p, Load(books, k), NULL, NULL, Bump(tally, "return"))
  /\ UNCHANGED <<counters, books, users, returned, nextKey, quota, fresh, avail0, deleted, jar>>

\* returnBook: member = await User.findById(userId), then as above
returnUser(p) ==
  /\ req[p].op = "return"
  /\ req[p].pc = "user"
  /\ returnDecide(p, req[p].book, req[p].userId, FindUser(users, req[p].userId), tally)
  /\ UNCHANGED <<counters, books, users, returned, started, nextKey, quota, fresh, avail0, deleted, jar>>

\* document.save() can write: the document still exists, and, when an array
\* was replaced, its version key is the one loaded
SaveOk(bs, book, dirty) ==
  /\ book.key \in DOMAIN bs
  /\ IsDef(dirty.borrowers) => bs[book.key].v = book.v

\* a slip of the write: the document is replaced by the paths save() knows
\* of and the code is lost
SaveApplyReplace(b, dirty) ==
  [b EXCEPT
     !.BookID = "",
     !.TotalCopies = IF IsDef(dirty.TotalCopies) THEN Val(dirty.TotalCopies) ELSE @,
     !.AvailableCopies = IF IsDef(dirty.AvailableCopies) THEN Val(dirty.AvailableCopies) ELSE @,
     !.borrowers = IF IsDef(dirty.borrowers) THEN Val(dirty.borrowers) ELSE @,
     !.v = IF IsDef(dirty.borrowers) THEN @ + 1 ELSE @]

\* a slip of the write: the count is raised in the store ($inc) instead of set
SaveApplyInc(b, dirty) ==
  [b EXCEPT
     !.TotalCopies = IF IsDef(dirty.TotalCopies) THEN Val(dirty.TotalCopies) ELSE @,
     !.AvailableCopies = IF IsDef(dirty.AvailableCopies) THEN @ + 1 ELSE @,
     !.borrowers = IF IsDef(dirty.borrowers) THEN Val(dirty.borrowers) ELSE @,
     !.v = IF IsDef(dirty.borrowers) THEN @ + 1 ELSE @]

\* document.save(): $set of the modified paths; replacing an array bumps the version key
SaveApply(b, dirty) ==
  [b EXCEPT
     !.TotalCopies = IF IsDef(dirty.TotalCopies) THEN Val(dirty.TotalCopies) ELSE @,
     !.AvailableCopies = IF IsDef(dirty.AvailableCopies) THEN Val(dirty.AvailableCopies) ELSE @,
     !.borrowers = IF IsDef(dirty.borrowers) THEN Val(dirty.borrowers) ELSE @,
     !.v = IF IsDef(dirty.borrowers) THEN @ + 1 ELSE @]

\* returnBook: await book.save() and the response
returnSave(p) ==
  /\ req[p].op = "return"
  /\ req[p].pc = "save"
  /\ LET ok == SaveOk(books, req[p].book, req[p].dirty) IN
       /\ IF ok
          THEN /\ books' = [books EXCEPT ![req[p].book.key] = SaveApply(@, req[p].dirty)]
               /\ tally' = Bump(tally, "return:success")
          ELSE /\ books' = books
               /\ tally' = Bump(tally, "return:error")
       /\ trail' = Note("return", IF ok THEN "success" ELSE "error", req[p].userId,
                        req[p].book, Reload(books', req[p].book.key))
  /\ req' = [req EXCEPT ![p] = Idle]
  /\ UNCHANGED <<counters, users, returned, started, nextKey, quota, fresh, avail0, deleted, jar>>

(***************************************************************************)
(* The ledger of one book with a fixed total: issue and return requests.   *)
(***************************************************************************)
LedgerKey == BookKeys[1]

\* borrower lists of at most n entries
BorrowerLists(n) ==
  UNION {[1..m -> UserKeys] : m \in 0..Min(n, 1)}

InitLedger ==
  /\ counters = << >>
  /\ \E T \in 1..LedgerTotal : \E a \in 0..T : \E bl \in BorrowerLists(T - a) :
       /\ books = (LedgerKey :> [BookID |-> "AIPSLIB000042", TotalCopies |-> T,
                                 AvailableCopies |-> a, borrowers |-> bl, v |-> 0])
       /\ avail0 = a
  /\ users = Registered
  /\ req = [p \in Procs |-> Idle]
  /\ returned = << >>
  /\ tally = [k \in TallyKeys |-> 0]
  /\ started = 0
  /\ nextKey = 1
  /\ quota = [procs |-> LedgerProcs, requests |-> LedgerRequests, forms |-> FALSE]
  /\ fresh = {}
  /\ trail = << >>
  /\ deleted = << >>
  /\ jar = << >>

NextLedger ==
  \E p \in Procs :
    \/ \E id \in LedgerTokens : issueBook(p, id)
    \/ issueUser(p)
    \/ issueUpdate(p)
    \/ \E id \in LedgerTokens : returnBook(p, id)
    \/ returnUser(p)
    \/ returnSave(p)

SpecLedger == InitLedger /\ [][NextLedger]_vars

(***************************************************************************)
(* Issue requests alone on one book.                                       *)
(***************************************************************************)
InitIssue ==
  /\ counters = << >>
  /\ \E T \in 1..IssueTotal : \E a \in 0..T : \E bl \in BorrowerLists(T - a) :
       /\ books = (LedgerKey :> [BookID |-> "AIPSLIB000042", TotalCopies |-> T,
                                 AvailableCopies |-> a, borrowers |-> bl, v |-> 0])
       /\ avail0 = a
  /\ users = Registered
  /\ req = [p \in Procs |-> Idle]
  /\ returned = << >>
  /\ tally = [k \in TallyKeys |-> 0]
  /\ started = 0
  /\ nextKey = 1
  /\ quota = [procs |-> IssueProcs, requests |-> IssueRequests, forms |-> FALSE]
  /\ fresh = {}
  /\ trail = << >>
  /\ deleted = << >>
  /\ jar = << >>

NextIssue ==
  \E p \in Procs :
    \/ \E id \in LedgerTokens : issueBook(p, id)
    \/ issueUser(p)
    \/ issueUpdate(p)

SpecIssue == InitIssue /\ [][NextIssue]_vars

(***************************************************************************)
(* controllers/bookController.js: addBook, updateBook, deleteBook.         *)
(***************************************************************************)
\* toInt of a form field: undefined for a missing, empty or non-numeric
\* field, else Number(v); the fields are decimal integers with an optional sign
toInt(v) ==
  IF v = NULL \/ v = "" THEN Undef
  ELSE IF IsDigits(v) THEN Some(DigitsValue(v))
  ELSE IF Head(v) = "-" /\ IsDigits(Tail(v)) THEN Some(0 - DigitsValue(Tail(v)))
  ELSE Undef

\* what callers type into the totalCopies and availableCopies fields
CopyFields == {NULL, "x", "-1", "1", "2"}
\* what callers type into the bookID field of the add form
CodeFields == {NULL, " AIPSLIB000001 ", "42"}
\* what callers send as the book reference
BookTokens == {BookKeys[1], BookKeys[2], "1", "7"}

\* a slip of DefaultAvailable: a missing availableCopies is not given a default
DefaultAvailableNone(totalCopies, availableCopies) == availableCopies

\* availableCopies === undefined && Number.isFinite(totalCopies) ? totalCopies : availableCopies
DefaultAvailable(totalCopies, availableCopies) ==
  IF ~IsDef(availableCopies) /\ IsDef(totalCopies) THEN totalCopies ELSE availableCopies

\* the document Book.create stores: the schema gives a missing number its default 0
NewBook(bookID, totalCopies, availableCopies) ==
  [BookID |-> bookID,
   TotalCopies |-> IF IsDef(totalCopies) THEN Val(totalCopies) ELSE 0,
   AvailableCopies |-> IF IsDef(availableCopies) THEN Val(availableCopies) ELSE 0,
   borrowers |-> << >>, v |-> 0]

\* the unique index on BookID rejects the insert
DuplicateKey(bs, bookID) == \E k \in DOMAIN bs : bs[k].BookID = bookID

\* err.code of the error a unique index raises
DuplicateKeyCode == 11000

\* what an awaited insert does: it succeeds, or it is rejected by a unique
\* index, or it is rejected for another reason (the store cannot be reached)
NoError == [ok |-> TRUE, code |-> Undef]
DuplicateKeyError == [ok |-> FALSE, code |-> Some(DuplicateKeyCode)]
StoreError == [ok |-> FALSE, code |-> Undef]

\* the catch of addBook: next(err) whatever the error, which the error
\* handler of server.js answers with status 500
addBookCatch(err) == "error"

\* the bookID, totalCopies and availableCopies fields of the add form as sent
Given(bookID, totalField, availableField) ==
  [bookID |-> bookID, totalCopies |-> totalField, availableCopies |-> availableField]

\* the trail after an add request ends: the entry can also keep the form as sent
NoteAdd(result, given, after, err) ==
  IF quota.procs = 1
  THEN LET e == [op |-> "add", result |-> result, userId |-> NULL,
                 before |-> NoBook, after |-> after, err |-> err,
                 given |-> IF quota.forms THEN given ELSE NULL]
       IN  IF Len(trail) = 0 THEN <<e>> ELSE <<Last(trail), e>>
  ELSE trail

\* addBook from the mapping of the inputs to the response: Book.create(doc)
create(bookID, totalCopies, availableCopies, t, given) ==
  IF DuplicateKey(books, bookID)
  THEN /\ books' = books
       /\ nextKey' = nextKey
       /\ tally' = Bump(t, "add:" \o addBookCatch(DuplicateKeyError))
       /\ trail' = NoteAdd(addBookCatch(DuplicateKeyError), given, NoBook, DuplicateKeyError)
  ELSE /\ nextKey < Len(BookKeys)
       /\ nextKey' = nextKey + 1
       /\ books' = (BookKeys[nextKey + 1] :>
                      NewBook(bookID, totalCopies,
                              DefaultAvailable(totalCopies, availableCopies))) @@ books
       /\ tally' = Bump(t, "add:created")
       /\ trail' = NoteAdd("created", given, Load(books', BookKeys[nextKey + 1]), NoError)

\* addBook with a bookID in the form: nothing is awaited before Book.create
addBook(p, bookID, totalField, availableField) ==
  /\ CanStart(p)
  /\ norm(bookID) # ""
  /\ started' = started + 1
  /\ create(norm(bookID), toInt(totalField), toInt(availableField), Bump(tally, "add"),
            Given(bookID, totalField, availableField))
  /\ req' = req
  /\ UNCHANGED <<counters, users, returned, quota, fresh, avail0, deleted, jar>>

\* addBook without a bookID, up to the await in generateNextBookID
addBookGenerate(p, bookID, totalField, availableField) ==
  /\ CanStart(p)
  /\ norm(bookID) = ""
  /\ started' = started + 1
  /\ counters' = CounterUpsert(counters, BookPrefix)
  /\ req' = [req EXCEPT ![p] =
               [Idle EXCEPT !.op = "add", !.pc = "create", !.ns = BookPrefix,
                            !.width = BookWidth, !.seq = counters'[BookPrefix],
                            !.tot = toInt(totalField), !.av = toInt(availableField),
                            !.form = Given(bookID, totalField, availableField)]]
  /\ tally' = Bump(tally, "add")
  /\ UNCHANGED <<books, users, returned, nextKey, quota, fresh, avail0, trail, deleted, jar>>

\* addBook without a bookID, from the generated identifier to the response
addBookCreate(p) ==
  /\ req[p].op = "add"
  /\ req[p].pc = "create"
  /\ create(FormatId(req[p].ns, req[p].seq, req[p].width), req[p].tot, req[p].av, tally,
            req[p].form)
  /\ returned' = Append(returned,
                   [ns |-> req[p].ns, seq |-> req[p].seq, width |-> req[p].width,
                    id |-> FormatId(req[p].ns, req[p].seq, req[p].width)])
  /\ req' = [req EXCEPT ![p] = Idle]
  /\ UNCHANGED <<counters, users, started, quota, fresh, avail0, deleted, jar>>

\* addBook with a bookID in the form when Book.create is rejected for a
\* reason other than the unique index
addBookFail(p, bookID, totalField, availableField) ==
  /\ CanStart(p)
  /\ norm(bookID) # ""
  /\ started' = started + 1
  /\ tally' = Bump(Bump(tally, "add"), "add:" \o addBookCatch(StoreError))
  /\ trail' = NoteAdd(addBookCatch(StoreError),
                      Given(bookID, totalField, availableField), NoBook, StoreError)
  /\ UNCHANGED <<counters, books, users, req, returned, nextKey, quota, fresh, avail0, deleted, jar>>

\* addBook without a bookID when Book.create is rejected for such a reason
addBookCreateFail(p) ==
  /\ req[p].op = "add"
  /\ req[p].pc = "create"
  /\ tally' = Bump(tally, "add:" \o addBookCatch(StoreError))
  /\ trail' = NoteAdd(addBookCatch(StoreError), req[p].form, NoBook, StoreError)
  /\ returned' = Append(returned,
                   [ns |-> req[p].ns, seq |-> req[p].seq, width |-> req[p].width,
                    id |-> FormatId(req[p].ns, req[p].seq, req[p].width)])
  /\ req' = [req EXCEPT ![p] = Idle]
  /\ UNCHANGED <<counters, books, users, started, nextKey, quota, fresh, avail0, deleted, jar>>

\* Math.max(0, Math.min(newAvail, newTotal))
Clamp(newAvail, newTotal) == Max(0, Min(newAvail, newTotal))

\* the paths book.set(update) modifies: a path set to the value it has is not modified
UpdateDirty(book, totalCopies, availableCopies) ==
  LET newTotal == IF IsDef(totalCopies) THEN Val(totalCopies) ELSE TotalOf(book)
      newAvail == Clamp(IF IsDef(availableCopies) THEN Val(availableCopies)
                        ELSE AvailableOf(book), newTotal)
  IN  [NoDirty EXCEPT
         !.TotalCopies = IF newTotal # book.TotalCopies THEN Some(newTotal) ELSE Undef,
         !.AvailableCopies = IF newAvail # book.AvailableCopies THEN Some(newAvail) ELSE Undef]

\* updateBook up to the await of save()
updateBook(p, id, totalField, availableField) ==
  /\ CanStart(p)
  /\ started' = started + 1
  /\ LET k == findBookByParam(books, id) IN
       IF k = NULL
       THEN /\ req' = req
            /\ tally' = Bump(Bump(tally, "update"), "update:notFound")
            /\ trail' = NoteMiss("update", "notFound", id)
       ELSE IF k = Thrown
       THEN /\ req' = req
            /\ tally' = Bump(Bump(tally, "update"), "update:failed")
            /\ trail' = NoteMiss("update", "failed", id)
       ELSE /\ req' = [req EXCEPT ![p] =
                         [Idle EXCEPT !.op = "update", !.pc = "save",
                                      !.book = Load(books, k),
                                      !.tot = toInt(totalField), !.av = toInt(availableField),
                                      !.dirty = UpdateDirty(Load(books, k), toInt(totalField),
                                                            toInt(availableField))]]
            /\ tally' = Bump(tally, "update")
            /\ trail' = trail
  /\ UNCHANGED <<counters, books, users, returned, nextKey, quota, fresh, avail0, deleted, jar>>

\* updateBook: await book.save() and the response
updateSave(p) ==
  /\ req[p].op = "update"
  /\ req[p].pc = "save"
  /\ LET ok == SaveOk(books, req[p].book, req[p].dirty) IN
       /\ IF ok
          THEN /\ books' = [books EXCEPT ![req[p].book.key] = SaveApply(@, req[p].dirty)]
               /\ tally' = Bump(tally, "update:updated")
          ELSE /\ books' = books
               /\ tally' = Bump(tally, "update:failed")
       /\ trail' = Note("update", IF ok THEN "updated" ELSE "failed", NULL,
                        req[p].book, Reload(books', req[p].book.key))
  /\ req' = [req EXCEPT ![p] = Idle]
  /\ UNCHANGED <<counters, users, returned, started, nextKey, quota, fresh, avail0, deleted, jar>>

\* deleteBook: Book.findByIdAndDelete(req.params.id)
deleteBook(p, id) ==
  /\ CanStart(p)
  /\ started' = started + 1
  /\ books' = [k \in (DOMAIN books) \ {id} |-> books[k]]
  /\ tally' = Bump(tally, "delete")
  /\ trail' = Note("delete", "deleted", NULL, Reload(books, id), NoBook)
  /\ deleted' = IF id \in DOMAIN books THEN (id :> books[id].BookID) @@ deleted ELSE deleted
  /\ UNCHANGED <<counters, users, req, returned, nextKey, quota, fresh, avail0, jar>>

(***************************************************************************)
(* controllers/userController.js: createMember.                            *)
(***************************************************************************)
LowerChar(c) ==
  IF \E i \in 1..Len(UpperLetters) : SubSeq(UpperLetters, i, i) = c
  THEN LET i == CHOOSE j \in 1..Len(UpperLetters) : SubSeq(UpperLetters, j, j) = c
       IN  SubSeq(LowerLetters, i, i)
  ELSE c

\* String.prototype.toLowerCase
RECURSIVE toLowerCase(_)
toLowerCase(s) == IF Len(s) = 0 THEN s ELSE LowerChar(Head(s)) \o toLowerCase(Tail(s))

\* s matches /^[\d\s-]*$/
PhoneChars(s) ==
  \A i \in 1..Len(s) :
    LET c == SubSeq(s, i, i) IN DigitVal(c) >= 0 \/ c = " " \/ c = "-"

\* isPhone: /^(\+?\d[\d\s-]{6,})$/.test(s)
isPhone(s) ==
  LET t == IF Len(s) > 0 /\ Head(s) = "+" THEN Tail(s) ELSE s
  IN  /\ Len(t) >= 7
      /\ DigitVal(Head(t)) >= 0
      /\ PhoneChars(Tail(t))

\* s matches /^[^\s@]+$/
NoSpaceNoAt(s) ==
  /\ Len(s) > 0
  /\ \A i \in 1..Len(s) : SubSeq(s, i, i) # " " /\ SubSeq(s, i, i) # "@"

\* isEmail: /^[^\s@]+@[^\s@]+\.[^\s@]+$/.test(s.toLowerCase())
isEmail(s) ==
  LET e == toLowerCase(s) IN
    \E i \in 1..Len(e) : \E j \in (i + 1)..Len(e) :
      /\ SubSeq(e, i, i) = "@"
      /\ SubSeq(e, j, j) = "."
      /\ NoSpaceNoAt(SubSeq(e, 1, i - 1))
      /\ NoSpaceNoAt(SubSeq(e, i + 1, j - 1))
      /\ NoSpaceNoAt(SubSeq(e, j + 1, Len(e)))

AllowedTypes == {"student", "teacher", "staff", "foreigner"}
AllowedGender == {"male", "female", "other"}

\* a slip of the validation: the member type is not looked at
ValidateNoType(form) ==
  IF form.fullName = NULL \/ trim(form.fullName) = "" THEN "Name is required"
  ELSE IF form.phone # NULL /\ form.phone # "" /\ ~isPhone(form.phone)
  THEN "Invalid phone number"
  ELSE IF form.email # NULL /\ form.email # "" /\ ~isEmail(form.email) THEN "Invalid email"
  ELSE IF form.gender \notin AllowedGender THEN "Invalid gender"
  ELSE "ok"

\* the basic validations of createMember: the message of the first that fails
Validate(form) ==
  IF form.fullName = NULL \/ trim(form.fullName) = "" THEN "Name is required"
  ELSE IF form.phone # NULL /\ form.phone # "" /\ ~isPhone(form.phone)
  THEN "Invalid phone number"
  ELSE IF form.email # NULL /\ form.email # "" /\ ~isEmail(form.email) THEN "Invalid email"
  ELSE IF form.memberType \notin AllowedTypes THEN "Invalid member type"
  ELSE IF form.gender \notin AllowedGender THEN "Invalid gender"
  ELSE "ok"

\* the document User.create stores for a form
NewMember(memberID, form) ==
  Member(memberID, trim(form.fullName),
         IF form.phone = NULL THEN NULL ELSE trim(form.phone),
         IF form.email = NULL THEN NULL ELSE toLowerCase(trim(form.email)),
         form.memberType, form.gender)

\* the unique index on memberID rejects the insert
DuplicateMember(us, memberID) == \E k \in DOMAIN us : us[k].memberID = memberID

\* the _id the store gives to the n-th member created
CreatedKey(n) == "c" \o padStart(toString(n), 23)

\* the catch of createMember: err?.code === 11000 is answered with
\* "Duplicate memberID/email", any other error goes to next(err)
createMemberCatch(err) == IF err.code = Some(DuplicateKeyCode) THEN "duplicate" ELSE "error"

\* the trail after a member request ends: the form sent, the outcome, and
\* what the insert did
NoteMember(form, result, err) ==
  <<[op |-> "member", result |-> result, userId |-> NULL, before |-> NoBook,
     after |-> NoBook, form |-> form, err |-> err]>>

\* createMember up to the await in generateMemberID
createMember(p, form) ==
  /\ CanStart(p)
  /\ started' = started + 1
  /\ IF Validate(form) # "ok"
     THEN /\ counters' = counters
          /\ req' = req
          /\ tally' = Bump(Bump(tally, "member"), "member:invalid")
          /\ trail' = NoteMember(form, "invalid", NoError)
     ELSE /\ counters' = CounterUpsert(counters, MemberPrefix)
          /\ req' = [req EXCEPT ![p] =
                       [Idle EXCEPT !.op = "member", !.pc = "create", !.ns = MemberPrefix,
                                    !.width = MemberWidth, !.seq = counters'[MemberPrefix],
                                    !.form = form]]
          /\ tally' = Bump(tally, "member")
          /\ trail' = trail
  /\ UNCHANGED <<books, users, returned, nextKey, quota, fresh, avail0, deleted, jar>>

\* createMember from the generated identifier to the response
createMemberCreate(p) ==
  /\ req[p].op = "member"
  /\ req[p].pc = "create"
  /\ LET memberID == FormatId(req[p].ns, req[p].seq, req[p].width) IN
       /\ IF DuplicateMember(users, memberID)
          THEN /\ users' = users
               /\ tally' = Bump(tally, "member:" \o createMemberCatch(DuplicateKeyError))
               /\ trail' = NoteMember(req[p].form, createMemberCatch(DuplicateKeyError),
                                      DuplicateKeyError)
          ELSE /\ users' = (CreatedKey(Cardinality(DOMAIN users \ UserKeys) + 1) :>
                              NewMember(memberID, req[p].form)) @@ users
               /\ tally' = Bump(tally, "member:created")
               /\ trail' = NoteMember(req[p].form, "created", NoError)
       /\ returned' = Append(returned,
                        [ns |-> req[p].ns, seq |-> req[p].seq, width |-> req[p].width,
                         id |-> memberID])
  /\ req' = [req EXCEPT ![p] = Idle]
  /\ UNCHANGED <<counters, books, started, nextKey, quota, fresh, avail0, deleted, jar>>

\* createMember when User.create is rejected for a reason other than the
\* unique index
createMemberFail(p) ==
  /\ req[p].op = "member"
  /\ req[p].pc = "create"
  /\ tally' = Bump(tally, "member:" \o createMemberCatch(StoreError))
  /\ trail' = NoteMember(req[p].form, createMemberCatch(StoreError), StoreError)
  /\ returned' = Append(returned,
                   [ns |-> req[p].ns, seq |-> req[p].seq, width |-> req[p].width,
                    id |-> FormatId(req[p].ns, req[p].seq, req[p].width)])
  /\ req' = [req EXCEPT ![p] = Idle]
  /\ UNCHANGED <<counters, books, users, started, nextKey, quota, fresh, avail0, deleted, jar>>

(***************************************************************************)
(* Member registrations by several callers.                                *)
(***************************************************************************)
\* where the member counter stands initially: never used, or after 9998
\* registrations of which the last two are on record
MemberBases == {0, 9998}

\* a form that passes the validations, and the forms that differ from it in one field
BaseForm ==
  [fullName |-> " Cy ", phone |-> "+92 300-1234567", email |-> "Cy@X.org",
   memberType |-> "staff", gender |-> "other"]

MemberForms ==
  {BaseForm}
    \cup {[BaseForm EXCEPT !.fullName = v] : v \in {NULL, "  "}}
    \cup {[BaseForm EXCEPT !.phone = v] : v \in {NULL, "12345", "0300x123456"}}
    \cup {[BaseForm EXCEPT !.email = v] : v \in {NULL, "a@b", "a b@c.d"}}
    \cup {[BaseForm EXCEPT !.memberType = v] : v \in {NULL, "robot", "Student"}}
    \cup {[BaseForm EXCEPT !.gender = v] : v \in {NULL, "x"}}

InitMember ==
  /\ \E base \in MemberBases :
       IF base = 0
       THEN counters = << >> /\ users = << >>
       ELSE counters = (MemberPrefix :> base) /\ users = RegisteredAt(base)
  /\ books = << >>
  /\ req = [p \in Procs |-> Idle]
  /\ returned = << >>
  /\ tally = [k \in TallyKeys |-> 0]
  /\ started = 0
  /\ nextKey = 0
  /\ quota = [procs |-> MemberProcs, requests |-> MemberRequests, forms |-> FALSE]
  /\ fresh = Namespaces \ DOMAIN counters
  /\ avail0 = 0
  /\ trail = << >>
  /\ deleted = << >>
  /\ jar = << >>

NextMember ==
  \E p \in Procs :
    \/ \E form \in MemberForms : createMember(p, form)
    \/ createMemberCreate(p)

SpecMember == InitMember /\ [][NextMember]_vars

\* a slip of canIssue: it looks at the total
LookupDataByTotal(book) ==
  [total |-> TotalOf(book), available |-> AvailableOf(book),
   canIssue |-> TotalOf(book) > 0]

\* the total, available and canIssue of the JSON lookupBook answers with:
\* a loaded document has both numbers defined, so available is the stored one
LookupData(book) ==
  [total |-> TotalOf(book), available |-> AvailableOf(book),
   canIssue |-> AvailableOf(book) > 0]

\* lookupBook: the book findBookByParam resolves the token to, or 404
lookupBook(p, id) ==
  /\ CanStart(p)
  /\ started' = started + 1
  /\ LET k == findBookByParam(books, id)
         result == IF k = NULL THEN "notFound" ELSE IF k = Thrown THEN "error" ELSE "found"
     IN
       /\ tally' = Bump(Bump(tally, "lookup"), "lookup:" \o result)
       /\ trail' = <<[op |-> "lookup", result |-> result,
                      userId |-> NULL, before |-> Reload(books, k),
                      after |-> Reload(books, k), token |-> id,
                      data |-> LookupData(Reload(books, k))]>>
  /\ UNCHANGED <<counters, books, users, req, returned, nextKey, quota, fresh, avail0, deleted, jar>>

(***************************************************************************)
(* Lookups on a store of one or two books.                                 *)
(***************************************************************************)
ResolveRequests == 2

\* the codes of the stored books
ResolveCodes ==
  {"AIPSLIB000042", "Aipslib000042", "AIPSLIB42", "42", "AIPSLIB000007", BookKeys[2]}

\* what callers send as the book reference
ResolveTokens ==
  {"42", "000042", "aipslib000042", "AIPSLIB000042", BookKeys[1], BookKeys[2],
   " 42 ", "7", "AIPSLIB42", "4.", "b00000000000000000000009"}

InitResolve ==
  /\ counters = << >>
  /\ \E n \in 1..Len(BookKeys) : \E codes \in [1..n -> ResolveCodes] :
       /\ \A i, j \in 1..n : codes[i] = codes[j] => i = j
       /\ books = [k \in {BookKeys[i] : i \in 1..n} |->
                     NewBook(codes[KeyIndex(k)], Some(1), Some(1))]
       /\ nextKey = n
  /\ users = Registered
  /\ req = [p \in Procs |-> Idle]
  /\ returned = << >>
  /\ tally = [k \in TallyKeys |-> 0]
  /\ started = 0
  /\ quota = [procs |-> 1, requests |-> ResolveRequests, forms |-> FALSE]
  /\ fresh = {}
  /\ avail0 = 0
  /\ trail = << >>
  /\ deleted = << >>
  /\ jar = << >>

NextResolve == \E p \in Procs : \E id \in ResolveTokens : lookupBook(p, id)

SpecResolve == InitResolve /\ [][NextResolve]_vars

(***************************************************************************)
(* One caller making book requests one after the other, from an empty      *)
(* store with two registered members.                                      *)
(***************************************************************************)
SeqRequests == 3

InitSeq ==
  /\ counters = << >>
  /\ books = << >>
  /\ users = Registered
  /\ req = [p \in Procs |-> Idle]
  /\ returned = << >>
  /\ tally = [k \in TallyKeys |-> 0]
  /\ started = 0
  /\ nextKey = 0
  /\ quota = [procs |-> 1, requests |-> SeqRequests, forms |-> FALSE]
  /\ fresh = Namespaces
  /\ avail0 = 0
  /\ trail = << >>
  /\ deleted = << >>
  /\ jar = << >>

NextSeq ==
  \E p \in Procs :
    \/ \E bookID \in CodeFields, t \in CopyFields, a \in CopyFields : addBook(p, bookID, t, a)
    \/ \E bookID \in CodeFields, t \in CopyFields, a \in CopyFields :
         addBookGenerate(p, bookID, t, a)
    \/ addBookCreate(p)
    \/ \E id \in BookTokens, t \in CopyFields, a \in CopyFields : updateBook(p, id, t, a)
    \/ updateSave(p)
    \/ \E i \in DOMAIN BookKeys : deleteBook(p, BookKeys[i])
    \/ \E id \in BookTokens : issueBook(p, id)
    \/ issueUser(p)
    \/ issueUpdate(p)
    \/ \E id \in BookTokens : returnBook(p, id)
    \/ returnUser(p)
    \/ returnSave(p)

SpecSeq == InitSeq /\ [][NextSeq]_vars

(***************************************************************************)
(* One caller adding books to an empty store, the trail keeping the forms.  *)
(***************************************************************************)
AddRequests == 2
\* what the AIPSLIB counter holds before the first add, 0 for no counter
AddBases == {0, 9, 999999}
\* what callers type into the bookID field: nothing, blanks, a code with
\* blanks around it, a short code, and the code the allocator gives after 9
AddCodeFields == {NULL, "  ", " AIPSLIB000001 ", "42", "AIPSLIB000010"}

InitAdd ==
  /\ \E n \in AddBases : counters = IF n = 0 THEN << >> ELSE (BookPrefix :> n)
  /\ books = << >>
  /\ users = Registered
  /\ req = [p \in Procs |-> Idle]
  /\ returned = << >>
  /\ tally = [k \in TallyKeys |-> 0]
  /\ started = 0
  /\ nextKey = 0
  /\ quota = [procs |-> 1, requests |-> AddRequests, forms |-> TRUE]
  /\ fresh = Namespaces \ DOMAIN counters
  /\ avail0 = 0
  /\ trail = << >>
  /\ deleted = << >>
  /\ jar = << >>

NextAdd ==
  \E p \in Procs :
    \/ \E bookID \in AddCodeFields, t \in CopyFields, a \in CopyFields :
         addBook(p, bookID, t, a)
    \/ \E bookID \in AddCodeFields, t \in CopyFields, a \in CopyFields :
         addBookGenerate(p, bookID, t, a)
    \/ addBookCreate(p)

SpecAdd == InitAdd /\ [][NextAdd]_vars

(***************************************************************************)
(* One caller creating books and members in a library whose two members    *)
(* were registered before the counters existed; an insert can be rejected. *)
(***************************************************************************)
CreateRequests == 3
\* what callers type into the bookID field of the add form
CreateCodeFields == {NULL, "AIPSLIB000001"}
\* what callers type into the totalCopies field of the add form
CreateCopyFields == {NULL, "1"}
\* the member forms sent: one that passes the validations, one that does not
CreateForms == {BaseForm, [BaseForm EXCEPT !.memberType = "robot"]}

InitCreate ==
  /\ counters = << >>
  /\ books = << >>
  /\ users = Registered
  /\ req = [p \in Procs |-> Idle]
  /\ returned = << >>
  /\ tally = [k \in TallyKeys |-> 0]
  /\ started = 0
  /\ nextKey = 0
  /\ quota = [procs |-> 1, requests |-> CreateRequests, forms |-> TRUE]
  /\ fresh = Namespaces
  /\ avail0 = 0
  /\ trail = << >>
  /\ deleted = << >>
  /\ jar = << >>

NextCreate ==
  \E p \in Procs :
    \/ \E bookID \in CreateCodeFields, t \in CreateCopyFields : addBook(p, bookID, t, NULL)
    \/ \E bookID \in CreateCodeFields, t \in CreateCopyFields : addBookFail(p, bookID, t, NULL)
    \/ \E bookID \in CreateCodeFields, t \in CreateCopyFields :
         addBookGenerate(p, bookID, t, NULL)
    \/ addBookCreate(p)
    \/ addBookCreateFail(p)
    \/ \E form \in CreateForms : createMember(p, form)
    \/ createMemberCreate(p)
    \/ createMemberFail(p)

SpecCreate == InitCreate /\ [][NextCreate]_vars

(***************************************************************************)
(* One caller at the desk: issue, return, update and lookup requests one   *)
(* after the other on a store of two books, the first as addBook stored it *)
(* from a form.  The trail keeps the book references sent.                 *)
(***************************************************************************)
DeskRequests == 3
DeskKey == BookKeys[1]
\* what the add form of the first book had in totalCopies and availableCopies
DeskTotals == {NULL, "1", "2"}
DeskAvailables == {NULL, "-1", "0", "1"}
\* what callers type into the totalCopies and availableCopies fields of an update
DeskFields == {NULL, "1"}
\* what callers send as the book reference: the _id and the number of the
\* first book, a number and an _id of no book, and a reference that is not
\* a pattern the store can compile
DeskTokens == {DeskKey, "42", "9", "b00000000000000000000009", "("}

InitDesk ==
  /\ counters = (MemberPrefix :> 2) @@ (BookPrefix :> 42)
  /\ \E t \in DeskTotals : \E a \in DeskAvailables :
       /\ books = (BookKeys[1] :>
                     NewBook("AIPSLIB000042", toInt(t), DefaultAvailable(toInt(t), toInt(a))))
                  @@ (BookKeys[2] :> NewBook("AIPSLIB000007", Some(1), Some(1)))
       /\ avail0 = books[DeskKey].AvailableCopies
  /\ users = Registered
  /\ req = [p \in Procs |-> Idle]
  /\ returned = << >>
  /\ tally = [k \in TallyKeys |-> 0]
  /\ started = 0
  /\ nextKey = Len(BookKeys)
  /\ quota = [procs |-> 1, requests |-> DeskRequests, forms |-> TRUE]
  /\ fresh = {}
  /\ trail = << >>
  /\ deleted = << >>
  /\ jar = << >>

NextDesk ==
  \E p \in Procs :
    \/ \E id \in DeskTokens : issueBook(p, id)
    \/ issueUser(p)
    \/ issueUpdate(p)
    \/ \E id \in DeskTokens : returnBook(p, id)
    \/ returnUser(p)
    \/ returnSave(p)
    \/ \E id \in DeskTokens, t \in DeskFields, a \in DeskFields : updateBook(p, id, t, a)
    \/ updateSave(p)
    \/ \E id \in DeskTokens : lookupBook(p, id)

SpecDesk == InitDesk /\ [][NextDesk]_vars

(***************************************************************************)
(* One caller issuing and returning the copies of one book, added with a   *)
(* total and no availableCopies.                                           *)
(***************************************************************************)
TillRequests == 5
TillTotal == 2

InitTill ==
  /\ counters = << >>
  /\ \E T \in 1..TillTotal :
       /\ books = (LedgerKey :>
                     NewBook("AIPSLIB000042", Some(T), DefaultAvailable(Some(T), Undef)))
       /\ avail0 = T
  /\ users = Registered
  /\ req = [p \in Procs |-> Idle]
  /\ returned = << >>
  /\ tally = [k \in TallyKeys |-> 0]
  /\ started = 0
  /\ nextKey = 1
  /\ quota = [procs |-> 1, requests |-> TillRequests, forms |-> FALSE]
  /\ fresh = {}
  /\ trail = << >>
  /\ deleted = << >>
  /\ jar = << >>

NextTill ==
  \E p \in Procs :
    \/ \E id \in LedgerTokens : issueBook(p, id)
    \/ issueUser(p)
    \/ issueUpdate(p)
    \/ \E id \in LedgerTokens : returnBook(p, id)
    \/ returnUser(p)
    \/ returnSave(p)

SpecTill == InitTill /\ [][NextTill]_vars

(***************************************************************************)
(* Two callers at the shelf: a book is deleted while issue, return, update *)
(* and lookup requests for it are made and are in flight.  The store has   *)
(* two books; the first has a librarian's own code or a generated one.     *)
(***************************************************************************)
ShelfProcs == 2
ShelfRequests == 3
\* the codes the first book can have: a generated one, and one typed into
\* the add form that has a "(" in it
ShelfCodes == {"AIPSLIB000042", "LIB(42"}
\* what callers send as the book reference: the _id of the first book and
\* the two codes
ShelfTokens == {DeskKey} \cup ShelfCodes
\* what callers type into the totalCopies field of an update
ShelfFields == {NULL, "2"}

InitShelf ==
  /\ counters = (MemberPrefix :> 2) @@ (BookPrefix :> 42)
  /\ \E c \in ShelfCodes : \E a \in 0..1 : \E bl \in BorrowerLists(1 - a) :
       /\ books = (BookKeys[1] :> [NewBook(c, Some(1), Some(a)) EXCEPT !.borrowers = bl])
                  @@ (BookKeys[2] :> NewBook("AIPSLIB000007", Some(1), Some(1)))
       /\ avail0 = a
  /\ users = Registered
  /\ req = [p \in Procs |-> Idle]
  /\ returned = << >>
  /\ tally = [k \in TallyKeys |-> 0]
  /\ started = 0
  /\ nextKey = Len(BookKeys)
  /\ quota = [procs |-> ShelfProcs, requests |-> ShelfRequests, forms |-> TRUE]
  /\ fresh = {}
  /\ trail = << >>
  /\ deleted = << >>
  /\ jar = << >>

NextShelf ==
  \E p \in Procs :
    \/ \E i \in DOMAIN BookKeys : deleteBook(p, BookKeys[i])
    \/ \E id \in ShelfTokens : issueBook(p, id)
    \/ issueUser(p)
    \/ issueUpdate(p)
    \/ \E id \in ShelfTokens : returnBook(p, id)
    \/ returnUser(p)
    \/ returnSave(p)
    \/ \E id \in ShelfTokens, t \in ShelfFields : updateBook(p, id, t, NULL)
    \/ updateSave(p)
    \/ \E id \in ShelfTokens : lookupBook(p, id)

SpecShelf == InitShelf /\ [][NextShelf]_vars

(***************************************************************************)
(* server.js and routes/userRoutes.js: the admin login, the logout and the *)
(* routes behind the isAdmin cookie.                                       *)
(***************************************************************************)
\* process.env.ADMIN_USERNAME || "librarian", process.env.ADMIN_PASSWORD ||
\* "library123", with neither variable set
ADMIN_USERNAME == "librarian"
ADMIN_PASSWORD == "library123"

Cookie(name, value) == [name |-> name, value |-> value]

\* cookie.parse(req.headers.cookie || "")[name]: the value of the first
\* pair of that name, NULL (undefined) when the header has none
CookieParse(header, name) ==
  LET at == {i \in DOMAIN header : header[i].name = name} IN
    IF at = {} THEN NULL
    ELSE header[CHOOSE i \in at : \A j \in at : i <= j].value

\* the pairs of a header without those of one name
RECURSIVE Without(_, _)
Without(header, name) ==
  IF Len(header) = 0 THEN << >>
  ELSE IF Head(header).name = name THEN Without(Tail(header), name)
  ELSE <<Head(header)>> \o Without(Tail(header), name)

\* what the browser holds after res.cookie(name, value, { maxAge }): a
\* cookie of maxAge 0 is dropped at once, any other replaces the one held
ResCookie(header, name, value, maxAge) ==
  IF maxAge = 0 THEN Without(header, name)
  ELSE Append(Without(header, name), Cookie(name, value))

\* 24 * 60 * 60 * 1000
LoginMaxAge == 86400000

\* a slip of the test: any isAdmin cookie opens the gate
requireAdminAny(header) == CookieParse(header, "isAdmin") # NULL

\* requireAdmin and the middleware of adminRouter: cookies.isAdmin === "1"
requireAdmin(header) == CookieParse(header, "isAdmin") = "1"

\* the trail after a request to one of the pages ends: the route, the
\* response, and the name and password a login sent
NotePage(route, result, name, password) ==
  <<[op |-> route, result |-> result, userId |-> NULL, before |-> NoBook,
     after |-> NoBook, name |-> name, password |-> password]>>

\* the response of the gate to a request it does not let through
Refuse(p, route) ==
  /\ CanStart(p)
  /\ started' = started + 1
  /\ trail' = NotePage(route, "redirect:/admin/login", NULL, NULL)
  /\ UNCHANGED <<counters, books, users, req, returned, tally, nextKey, quota, fresh,
                 avail0, deleted, jar>>

\* a handler that renders a view and changes nothing
Render(p, route, view) ==
  /\ CanStart(p)
  /\ started' = started + 1
  /\ trail' = NotePage(route, "render:" \o view, NULL, NULL)
  /\ UNCHANGED <<counters, books, users, req, returned, tally, nextKey, quota, fresh,
                 avail0, deleted, jar>>

\* GET /admin/login
adminLoginForm(p) ==
  /\ CanStart(p)
  /\ started' = started + 1
  /\ tally' = Bump(tally, "loginForm")
  /\ trail' = NotePage("GET /admin/login",
                       IF CookieParse(jar, "isAdmin") = "1" THEN "redirect:/admin/dashboard"
                       ELSE "render:adminLogin", NULL, NULL)
  /\ UNCHANGED <<counters, books, users, req, returned, nextKey, quota, fresh, avail0,
                 deleted, jar>>

\* POST /admin/login
adminLogin(p, name, password) ==
  /\ CanStart(p)
  /\ started' = started + 1
  /\ IF name = NULL \/ name = "" \/ password = NULL \/ password = ""
     THEN /\ jar' = jar
          /\ tally' = Bump(Bump(tally, "login"), "login:missing")
          /\ trail' = NotePage("POST /admin/login", "400:adminLogin", name, password)
     ELSE IF name = ADMIN_USERNAME /\ password = ADMIN_PASSWORD
     THEN /\ jar' = ResCookie(jar, "isAdmin", "1", LoginMaxAge)
          /\ tally' = Bump(Bump(tally, "login"), "login:ok")
          /\ trail' = NotePage("POST /admin/login", "redirect:/admin/dashboard", name,
                               password)
     ELSE /\ jar' = jar
          /\ tally' = Bump(Bump(tally, "login"), "login:invalid")
          /\ trail' = NotePage("POST /admin/login", "401:adminLogin", name, password)
  /\ UNCHANGED <<counters, books, users, req, returned, nextKey, quota, fresh, avail0,
                 deleted>>

\* POST /admin/logout
adminLogout(p) ==
  /\ CanStart(p)
  /\ started' = started + 1
  /\ jar' = ResCookie(jar, "isAdmin", "", 0)
  /\ tally' = Bump(tally, "logout")
  /\ trail' = NotePage("POST /admin/logout", "redirect:/", NULL, NULL)
  /\ UNCHANGED <<counters, books, users, req, returned, nextKey, quota, fresh, avail0,
                 deleted>>

\* GET /admin/dashboard behind the middleware of adminRouter
adminDashboard(p) ==
  IF requireAdmin(jar) THEN Render(p, "GET /admin/dashboard", "welcome")
  ELSE Refuse(p, "GET /admin/dashboard")

\* GET /members/add: requireAdmin, renderAddForm
membersAddForm(p) ==
  IF requireAdmin(jar) THEN Render(p, "GET /members/add", "members/addMember")
  ELSE Refuse(p, "GET /members/add")

\* GET /members/list: requireAdmin, renderList
membersList(p) ==
  IF requireAdmin(jar) THEN Render(p, "GET /members/list", "members/list")
  ELSE Refuse(p, "GET /members/list")

\* POST /members/add: requireAdmin, createMember
membersAdd(p, form) ==
  IF requireAdmin(jar) THEN createMember(p, form)
  ELSE Refuse(p, "POST /members/add")

(***************************************************************************)
(* One browser at the pages behind the gate.  It starts with the cookies   *)
(* of an earlier visit, or with cookies written by hand.                   *)
(***************************************************************************)
GateRequests == 3
\* the Cookie headers the browser can start with
GateJars ==
  {<< >>,
   <<Cookie("isAdmin", "1")>>,
   <<Cookie("isAdmin", "0")>>,
   <<Cookie("isAdmin", "")>>,
   <<Cookie("theme", "1")>>,
   <<Cookie("theme", "1"), Cookie("isAdmin", "1")>>,
   <<Cookie("isAdmin", "0"), Cookie("isAdmin", "1")>>}
\* what is typed into the name and the password field of the login form
GateNames == {NULL, "", ADMIN_USERNAME, "admin"}
GatePasswords == {NULL, "", ADMIN_PASSWORD, ADMIN_USERNAME}

InitGate ==
  /\ counters = << >>
  /\ books = << >>
  /\ users = << >>
  /\ req = [p \in Procs |-> Idle]
  /\ returned = << >>
  /\ tally = [k \in TallyKeys |-> 0]
  /\ started = 0
  /\ nextKey = 0
  /\ quota = [procs |-> 1, requests |-> GateRequests, forms |-> TRUE]
  /\ fresh = Namespaces
  /\ avail0 = 0
  /\ trail = << >>
  /\ deleted = << >>
  /\ jar \in GateJars

NextGate ==
  \E p \in Procs :
    \/ adminLoginForm(p)
    \/ \E name \in GateNames, password \in GatePasswords : adminLogin(p, name, password)
    \/ adminLogout(p)
    \/ adminDashboard(p)
    \/ membersAddForm(p)
    \/ membersList(p)
    \/ \E form \in CreateForms : membersAdd(p, form)
    \/ createMemberCreate(p)
    \/ createMemberFail(p)

SpecGate == InitGate /\ [][NextGate]_vars

(***************************************************************************)
(* Properties of the allocator.                                            *)
(***************************************************************************)
IndexesOf(ns) == {j \in DOMAIN returned : returned[j].ns = ns}
IdsOf(ns) == {returned[j].id : j \in IndexesOf(ns)}
CountOf(ns) == Cardinality(IndexesOf(ns))
\* the callers whose allocation in ns has incremented and not yet returned
InFlight(ns) == {p \in Procs : req[p].pc = "format" /\ req[p].ns = ns}
\* the numbers of ns returned so far and the numbers about to be returned
ReturnedSeqs(ns) == {returned[j].seq : j \in IndexesOf(ns)}
PendingSeqs(ns) == {req[p].seq : p \in InFlight(ns)}

LibCodes ==
  <<"AIPSLIB000001", "AIPSLIB000002", "AIPSLIB000003", "AIPSLIB000004",
    "AIPSLIB000005", "AIPSLIB000006", "AIPSLIB000007", "AIPSLIB000008",
    "AIPSLIB000009">>

\* C1: for a namespace that started without a counter, the identifiers
\* returned to N concurrent allocate calls are pairwise distinct; no number
\* is held by two calls; once all N calls have returned, the numbers are
\* exactly 1..N and, for "AIPSLIB" with width 6, the identifiers are exactly
\* AIPSLIB000001 .. AIPSLIB00000N.
C1_DistinctContiguous ==
  \A ns \in fresh :
    /\ Cardinality(IdsOf(ns)) = CountOf(ns)
    /\ Cardinality(ReturnedSeqs(ns)) = CountOf(ns)
    /\ Cardinality(PendingSeqs(ns)) = Cardinality(InFlight(ns))
    /\ ReturnedSeqs(ns) \cap PendingSeqs(ns) = {}
    /\ ReturnedSeqs(ns) \cup PendingSeqs(ns)
         = 1..(CountOf(ns) + Cardinality(InFlight(ns)))
    /\ (ns = BookPrefix /\ InFlight(ns) = {})
         => IdsOf(ns) = {LibCodes[k] : k \in 1..CountOf(ns)}

\* three calls on the fresh book namespace were in flight together and all
\* have returned, the last increment first
C1_Witness ==
  /\ BookPrefix \in fresh
  /\ Len(returned) = 3
  /\ returned[1].id = "AIPSLIB000003"
  /\ returned[2].id = "AIPSLIB000001"
  /\ returned[3].id = "AIPSLIB000002"

\* C8: the stored sequence of a namespace never decreases, and every
\* allocation takes a number strictly greater than every number already
\* returned or taken for the same namespace, whatever other calls on the
\* same or on other namespaces do in between.
C8_StrictlyIncreasing ==
  [][ /\ \A ns \in DOMAIN counters :
           ns \in DOMAIN counters' /\ counters'[ns] >= counters[ns]
      /\ \A p \in Procs :
           (req[p].pc = "idle" /\ req'[p].pc = "format") =>
             \A n \in ReturnedSeqs(req'[p].ns) \cup PendingSeqs(req'[p].ns) :
               n < req'[p].seq ]_vars

\* an allocation taken while an earlier one of the same namespace is still in
\* flight, after allocations of both namespaces have returned
C8_Witness ==
  /\ Cardinality(InFlight(MemberPrefix)) = 2
  /\ CountOf(MemberPrefix) >= 1
  /\ CountOf(BookPrefix) >= 1

RECURSIVE NumDigits(_)
NumDigits(n) == IF n < 10 THEN 1 ELSE 1 + NumDigits(n \div 10)

\* C9: an allocation raises the namespace's sequence by exactly 1 (from 0
\* when no counter exists) and returns the namespace followed by the new
\* sequence zero-padded on the left to at least the width; on a fresh
\* "AIPSMEM" namespace, calls made one after the other take 1, 2, ... and
\* the calls that took 1 and 2 return AIPSMEM0001 and AIPSMEM0002.
C9_AllocateFormat ==
  [][ /\ \A p \in Procs :
           (req[p].pc = "idle" /\ req'[p].pc = "format") =>
             LET ns == req'[p].ns
                 old == IF ns \in DOMAIN counters THEN counters[ns] ELSE 0
             IN  /\ counters'[ns] = old + 1
                 /\ req'[p].seq = old + 1
                 /\ (ns \in fresh /\ InFlight(ns) = {}) => req'[p].seq = CountOf(ns) + 1
      /\ \A p \in Procs :
           (req[p].pc = "format" /\ req'[p].pc = "idle") =>
             LET e == Last(returned')
                 tail == SubSeq(e.id, Len(e.ns) + 1, Len(e.id))
             IN  /\ Len(returned') = Len(returned) + 1
                 /\ e.ns = req[p].ns /\ e.seq = req[p].seq
                 /\ SubSeq(e.id, 1, Len(e.ns)) = e.ns
                 /\ Len(tail) = Max(e.width, NumDigits(e.seq))
                 /\ IsDigits(tail)
                 /\ DigitsValue(tail) = e.seq
                 /\ (e.ns = MemberPrefix /\ e.seq = 1) => e.id = "AIPSMEM0001"
                 /\ (e.ns = MemberPrefix /\ e.seq = 2) => e.id = "AIPSMEM0002" ]_vars

\* two member allocations in a row from a fresh namespace, and a book
\* allocation whose number needs more digits than the width
C9_Witness ==
  /\ MemberPrefix \in fresh
  /\ \E j \in DOMAIN returned :
       /\ j + 1 \in DOMAIN returned
       /\ returned[j].id = "AIPSMEM0001"
       /\ returned[j + 1].id = "AIPSMEM0002"
  /\ \E j \in DOMAIN returned : returned[j].id = "AIPSLIB1000000"

(***************************************************************************)
(* Properties of the copy ledger.                                          *)
(***************************************************************************)
LedgerBook == books[LedgerKey]
Quiet == \A p \in Procs : req[p].pc = "idle"
\* the issue requests that found the book
IssueCalls == tally["issue"] - tally["issue:notFound"]

\* C2: with A copies available and K concurrent issue requests and nothing
\* else on the book, exactly min(K, A) requests succeed, the others report
\* noCopiesAvailable, the count ends at A - min(K, A), and it is never
\* negative on the way.
C2_IssueExactlyMin ==
  /\ LedgerBook.AvailableCopies >= 0
  /\ LedgerBook.AvailableCopies = avail0 - tally["issue:success"]
  /\ Quiet =>
       /\ tally["issue:success"] = Min(IssueCalls, avail0)
       /\ tally["issue:noCopiesAvailable"] = IssueCalls - Min(IssueCalls, avail0)
       /\ LedgerBook.AvailableCopies = avail0 - Min(IssueCalls, avail0)

\* three copies, four issue requests: three successes, one refusal, none left
C2_Witness ==
  /\ avail0 = 3
  /\ Quiet
  /\ tally["issue:success"] = 3
  /\ tally["issue:noCopiesAvailable"] = 1
  /\ LedgerBook.AvailableCopies = 0

\* C5: while the book has no copy available, no issue request succeeds, with
\* or without a member reference: every one that ends reports
\* noCopiesAvailable, the count stays 0 and the borrower list is unchanged.
C5_NoneAvailable ==
  [][ LedgerBook.AvailableCopies = 0 =>
        /\ books' = books
        /\ tally'["issue:success"] = tally["issue:success"]
        /\ tally'["issue"] - tally'["issue:notFound"] - Cardinality({p \in Procs : req'[p].op = "issue"})
             = tally'["issue:noCopiesAvailable"] + tally'["issue:success"] ]_vars

\* a book that started with no copy available and one borrower on its list
\* has refused three issue requests
C5_Witness ==
  /\ avail0 = 0
  /\ LedgerBook.AvailableCopies = 0
  /\ Len(LedgerBook.borrowers) = 1
  /\ tally["issue:noCopiesAvailable"] = 3

\* C3: starting from availableCopies = totalCopies = T, the successful
\* issues never exceed the successful returns by more than T.
C3_NoOverIssue ==
  avail0 = LedgerBook.TotalCopies =>
    tally["issue:success"] - tally["return:success"] <= LedgerBook.TotalCopies

\* C10: for a book with fixed total T > 0 that starts within [0, T], every
\* interleaving of issue and return requests, with or without member
\* references, keeps availableCopies within [0, T].
C10_CountWithinBounds ==
  /\ LedgerBook.TotalCopies > 0
  /\ LedgerBook.AvailableCopies >= 0
  /\ LedgerBook.AvailableCopies <= LedgerBook.TotalCopies

\* issues and returns have interleaved and the borrower list has drifted:
\* every copy is back and the list still names a borrower
C10_Witness ==
  /\ tally["issue:success"] >= 2
  /\ tally["return:success"] >= 2
  /\ LedgerBook.AvailableCopies = LedgerBook.TotalCopies
  /\ Len(LedgerBook.borrowers) > 0

\* C12 as stated: the step of an issue that decrements availableCopies leaves
\* the borrower list as it was (the member is appended in a later step, and
\* the state in between is observable).
C12_AppendOutsideDecrement ==
  [][ LedgerBook'.AvailableCopies = LedgerBook.AvailableCopies - 1
        => LedgerBook'.borrowers = LedgerBook.borrowers ]_vars

\* C12 as amended: the count and the borrower list change only in the one
\* conditional update of an issue, which decrements the count by 1 and, when
\* the request resolved a member, appends that member in the same step.
C12_AppendWithDecrement ==
  [][ (LedgerBook' # LedgerBook) =>
        \E p \in Procs :
          /\ req[p].op = "issue"
          /\ req[p].pc = "update"
          /\ req'[p].pc = "idle"
          /\ LedgerBook'.AvailableCopies = LedgerBook.AvailableCopies - 1
          /\ LedgerBook'.borrowers =
               (IF req[p].userId \in DOMAIN users
                THEN Append(LedgerBook.borrowers, req[p].userId)
                ELSE LedgerBook.borrowers) ]_vars

\* two of three copies were issued to members, and both are on the list
C12_Witness ==
  /\ avail0 = 3
  /\ LedgerBook.AvailableCopies = 1
  /\ Len(LedgerBook.borrowers) = 2

\* C11: return is a read-modify-write: the save() of a return that succeeds
\* stores the count computed from the document the request read, whatever
\* the store holds by then, so that two concurrent returns can both succeed
\* and raise the count by 1 only.
C11_ReturnWritesFromItsRead ==
  [][ \A p \in Procs :
        ( /\ req[p].op = "return"
          /\ req[p].pc = "save"
          /\ tally'["return:success"] = tally["return:success"] + 1
          /\ req'[p].pc = "idle" )
        => books'[req[p].book.key].AvailableCopies
             = (IF req[p].book.TotalCopies > 0
                THEN Min(req[p].book.AvailableCopies + 1, req[p].book.TotalCopies)
                ELSE req[p].book.AvailableCopies + 1) ]_vars

\* two returns and nothing else ran on a book with room for both, both
\* succeeded, and the count is 1 higher than before
C11_Witness ==
  /\ Quiet
  /\ tally["issue"] = 0
  /\ tally["return"] = 2
  /\ tally["return:success"] = 2
  /\ LedgerBook.TotalCopies >= avail0 + 2
  /\ LedgerBook.AvailableCopies = avail0 + 1

\* C13: the borrower list of a book never has more entries than the book has
\* copies, whatever issue and return requests are made with whatever member
\* references.
C13_BorrowersWithinTotal ==
  Len(LedgerBook.borrowers) <= LedgerBook.TotalCopies

(***************************************************************************)
(* Properties of the book requests of one caller.                          *)
(***************************************************************************)
\* the request that ended last, and the one that ended before it
LastEntry == trail[Len(trail)]
PrevEntry == trail[1]

\* C4: every stored book has 0 <= availableCopies <= totalCopies, whatever
\* add, update, issue, return and delete requests were made with whatever
\* inputs.
C4_CountWithinTotal ==
  \A k \in DOMAIN books :
    /\ 0 <= books[k].AvailableCopies
    /\ books[k].AvailableCopies <= books[k].TotalCopies

\* C6: a return request that finds a book with totalCopies > 0 and
\* availableCopies >= totalCopies reports allCopiesAlreadyReturned and leaves
\* the book as it found it (availableCopies, totalCopies, borrower list),
\* also when the member reference sent is on the borrower list.
C6_RefusedReturnChangesNothing ==
  \A i \in DOMAIN trail :
    ( /\ trail[i].op = "return"
      /\ trail[i].before # NoBook
      /\ trail[i].before.TotalCopies > 0
      /\ trail[i].before.AvailableCopies >= trail[i].before.TotalCopies )
    => /\ trail[i].result = "allCopiesAlreadyReturned"
       /\ trail[i].after = trail[i].before

\* a return naming a member who is on the borrower list was refused on a
\* book with every copy in
C6_Witness ==
  /\ Len(trail) > 0
  /\ LastEntry.op = "return"
  /\ LastEntry.result = "allCopiesAlreadyReturned"
  /\ LastEntry.before.TotalCopies > 0
  /\ LastEntry.before.AvailableCopies >= LastEntry.before.TotalCopies
  /\ \E i \in DOMAIN LastEntry.before.borrowers :
       LastEntry.before.borrowers[i] = LastEntry.userId
  /\ LastEntry.after = LastEntry.before

\* C14: a return that succeeds on a book with a non-empty borrower list
\* removes exactly one entry: the first entry of the member sent when that
\* member is on the list, and the oldest (first) entry in every other case
\* (no member sent, a member that does not resolve, a member that resolves
\* and is not on the list); with an empty list nothing is removed.
C14_OneBorrowerRemoved ==
  \A i \in DOMAIN trail :
    (trail[i].op = "return" /\ trail[i].result = "success") =>
      LET bl == trail[i].before.borrowers
          held == {j \in DOMAIN bl : bl[j] = trail[i].userId}
          gone == IF held # {} THEN CHOOSE j \in held : \A h \in held : j <= h ELSE 1
      IN  trail[i].after.borrowers =
            (IF Len(bl) = 0 THEN << >>
             ELSE [j \in 1..(Len(bl) - 1) |-> IF j < gone THEN bl[j] ELSE bl[j + 1]])

\* C15: a return that is not refused succeeds and leaves availableCopies at
\* min(available + 1, total) when totalCopies > 0 and at available + 1, with
\* no cap, when totalCopies = 0.
C15_ReturnRaisesCount ==
  \A i \in DOMAIN trail :
    ( /\ trail[i].op = "return"
      /\ trail[i].before # NoBook
      /\ ~(trail[i].before.TotalCopies > 0
            /\ trail[i].before.AvailableCopies >= trail[i].before.TotalCopies) )
    => /\ trail[i].result = "success"
       /\ trail[i].before.TotalCopies > 0 =>
            trail[i].after.AvailableCopies =
              Min(trail[i].before.AvailableCopies + 1, trail[i].before.TotalCopies)
       /\ trail[i].before.TotalCopies = 0 =>
            trail[i].after.AvailableCopies = trail[i].before.AvailableCopies + 1

\* a book with no recorded total took two returns, each raising the count by 1
C15_Witness ==
  /\ Len(trail) = 2
  /\ PrevEntry.op = "return"
  /\ PrevEntry.result = "success"
  /\ LastEntry.op = "return"
  /\ LastEntry.result = "success"
  /\ LastEntry.before.TotalCopies = 0
  /\ PrevEntry.before.AvailableCopies = 0
  /\ LastEntry.before.AvailableCopies = 1
  /\ LastEntry.after.AvailableCopies = 2

\* C7: an issue that succeeds followed at once by a return on the same book
\* leaves availableCopies at the value it had before the issue.
C7_RoundTrip ==
  ( /\ Len(trail) = 2
    /\ PrevEntry.op = "issue"
    /\ PrevEntry.result = "success"
    /\ LastEntry.op = "return"
    /\ LastEntry.before # NoBook
    /\ LastEntry.before.key = PrevEntry.before.key )
  => LastEntry.after.AvailableCopies = PrevEntry.before.AvailableCopies

\* caller p's update request writes the book in this step and reports success
UpdateCompletes(p) ==
  /\ req[p].op = "update"
  /\ req[p].pc = "save"
  /\ req'[p].pc = "idle"
  /\ tally'["update:updated"] = tally["update:updated"] + 1

\* what C22 says of the book an update leaves, given the book it found and
\* the totalCopies and availableCopies the form supplied
UpdateLeaves(prev, b, tot, av) ==
  /\ 0 <= b.AvailableCopies
  /\ b.AvailableCopies <= b.TotalCopies
  /\ (IsDef(tot) /\ ~IsDef(av)) =>
       /\ b.TotalCopies = Val(tot)
       /\ b.AvailableCopies = Min(prev.AvailableCopies, Val(tot))
  /\ IsDef(av) => b.AvailableCopies = Max(0, Min(Val(av), b.TotalCopies))

\* C22: after an update by a single caller the book has
\* 0 <= availableCopies <= totalCopies; when the form supplied only a total,
\* availableCopies is the smaller of its previous value and the new total;
\* when the form supplied availableCopies, the stored value is that number
\* clamped into [0, resulting total].
C22_UpdateClamps ==
  [][ \A p \in Procs :
        UpdateCompletes(p) =>
          UpdateLeaves(books[req[p].book.key], books'[req[p].book.key],
                       req[p].tot, req[p].av) ]_vars

\* C22 for the updates that find a book with availableCopies >= 0 and leave
\* it a total >= 0
C22_UpdateClampsFromValid ==
  [][ \A p \in Procs :
        ( /\ UpdateCompletes(p)
          /\ books[req[p].book.key].AvailableCopies >= 0
          /\ books'[req[p].book.key].TotalCopies >= 0 ) =>
          UpdateLeaves(books[req[p].book.key], books'[req[p].book.key],
                       req[p].tot, req[p].av) ]_vars

\* C22 for the updates that leave the book a total >= 0
C22_UpdateClampsToValid ==
  [][ \A p \in Procs :
        ( /\ UpdateCompletes(p)
          /\ books'[req[p].book.key].TotalCopies >= 0 ) =>
          UpdateLeaves(books[req[p].book.key], books'[req[p].book.key],
                       req[p].tot, req[p].av) ]_vars

(***************************************************************************)
(* Properties of the lookup.                                               *)
(***************************************************************************)
\* the digits after the namespace in a code, "" when there are none
CodeTail(code) == SubSeq(code, Len(BookPrefix) + 1, Len(code))

\* the strategies of resolve in priority order: does the book with _id k and
\* code c answer the token t under strategy s
Answers(s, k, c, t) ==
  CASE s = 1 -> k = t
    [] s = 2 -> c = t
    [] s = 3 -> /\ IsDigits(t)
                /\ Len(c) > Len(BookPrefix)
                /\ SubSeq(c, 1, Len(BookPrefix)) = BookPrefix
                /\ IsDigits(CodeTail(c))
                /\ DigitsValue(CodeTail(c)) = DigitsValue(t)
                /\ Len(CodeTail(c)) = Max(BookWidth, NumDigits(DigitsValue(t)))
    [] s = 4 -> /\ IsDigits(t)
                /\ Len(c) > Len(BookPrefix)
                /\ upper(SubSeq(c, 1, Len(BookPrefix))) = BookPrefix
                /\ IsDigits(CodeTail(c))
                /\ DigitsValue(CodeTail(c)) = DigitsValue(t)
    [] s = 5 -> upper(c) = upper(t)

Strategies == 1..5
NoStrategy == Cardinality(Strategies) + 1

\* the first strategy under which book k answers token t, NoStrategy when none does
StrategyOf(k, t) ==
  LET S == {s \in Strategies : Answers(s, k, books[k].BookID, t)}
  IN  IF S = {} THEN NoStrategy ELSE CHOOSE s \in S : \A r \in S : s <= r

\* the books stored under the code "AIPSLIB000042"
Targets == {k \in DOMAIN books : books[k].BookID = "AIPSLIB000042"}

\* the tokens that name the book k of that code
TokensFor(k) == {"42", "000042", "aipslib000042", "AIPSLIB000042", k}

Looked == Len(trail) = 1 /\ trail[1].op = "lookup"

\* C16 as stated: a lookup with one of the tokens "42", "000042",
\* "aipslib000042", "AIPSLIB000042" or the book's _id finds the book stored
\* under "AIPSLIB000042", provided no other book answers the token under an
\* earlier strategy.
C16_TokensResolve ==
  Looked =>
    \A k \in Targets :
      ( /\ trail[1].token \in TokensFor(k)
        /\ \A o \in DOMAIN books \ {k} :
             StrategyOf(o, trail[1].token) >= StrategyOf(k, trail[1].token) )
      => trail[1].after.key = k

\* C16 as amended: the same, provided no other book answers the token under
\* the same or an earlier strategy.
C16_TokensResolveAlone ==
  Looked =>
    \A k \in Targets :
      ( /\ trail[1].token \in TokensFor(k)
        /\ \A o \in DOMAIN books \ {k} :
             StrategyOf(o, trail[1].token) > StrategyOf(k, trail[1].token) )
      => trail[1].after.key = k

\* the lower-case token found the book in a store that holds a second book
C16_Witness ==
  /\ Looked
  /\ trail[1].token = "aipslib000042"
  /\ trail[1].result = "found"
  /\ trail[1].after.BookID = "AIPSLIB000042"
  /\ Cardinality(DOMAIN books) = 2

\* C17: the first strategy that matches wins: the lookup reports not found
\* exactly when no book answers the token under any strategy, and a book it
\* finds answers the token under a strategy no other book precedes.
C17_FirstStrategyWins ==
  Looked =>
    LET t == norm(trail[1].token) IN
      /\ trail[1].result = "notFound" <=>
           \A k \in DOMAIN books : StrategyOf(k, t) = NoStrategy
      /\ trail[1].result = "found" =>
           /\ StrategyOf(trail[1].after.key, t) # NoStrategy
           /\ \A o \in DOMAIN books :
                StrategyOf(o, t) >= StrategyOf(trail[1].after.key, t)

(***************************************************************************)
(* Properties of the member registrations.                                 *)
(***************************************************************************)
\* a form that must fail validation: no name, a phone or an email that is
\* sent and does not match its pattern, a member type or a gender outside
\* the allowed values
Invalid(form) ==
  \/ form.fullName = NULL
  \/ \A i \in 1..Len(form.fullName) : SubSeq(form.fullName, i, i) = " "
  \/ (form.phone # NULL /\ ~isPhone(form.phone))
  \/ (form.email # NULL /\ ~isEmail(form.email))
  \/ form.memberType \notin {"student", "teacher", "staff", "foreigner"}
  \/ form.gender \notin {"male", "female", "other"}

\* C18: a create-member request whose form fails validation is answered with
\* a validation failure and changes nothing: no member document is stored
\* and no counter is incremented.
C18_InvalidFormMutatesNothing ==
  [][ ( /\ trail' # trail
        /\ trail'[1].op = "member"
        /\ Invalid(trail'[1].form) )
      => /\ trail'[1].result = "invalid"
         /\ users' = users
         /\ counters' = counters ]_vars

\* a registration with member type "robot" was refused, and the store holds
\* no member and no counter
C18_Witness ==
  /\ Len(trail) = 1
  /\ trail[1].op = "member"
  /\ trail[1].form.memberType = "robot"
  /\ trail[1].result = "invalid"
  /\ tally["member:invalid"] = 3
  /\ users = << >>
  /\ counters = << >>

MemberCodes == {users[k].memberID : k \in DOMAIN users}

\* the digits after the namespace in a member code
MemberTail(code) == SubSeq(code, Len(MemberPrefix) + 1, Len(code))

\* C19: the stored members have pairwise distinct codes; each code is
\* "AIPSMEM" followed by decimal digits, zero-padded to 4, and the code of a
\* member created by a request is the one built from the sequence value
\* that request was allocated.
C19_MemberCodesDistinct ==
  /\ Cardinality(MemberCodes) = Cardinality(DOMAIN users)
  /\ \A k \in DOMAIN users :
       LET code == users[k].memberID IN
         /\ SubSeq(code, 1, Len(MemberPrefix)) = MemberPrefix
         /\ IsDigits(MemberTail(code))
         /\ Len(MemberTail(code)) = Max(MemberWidth, NumDigits(DigitsValue(MemberTail(code))))
         /\ k \notin UserKeys =>
              \E i \in DOMAIN returned :
                /\ returned[i].ns = MemberPrefix
                /\ returned[i].id = code
                /\ returned[i].seq = DigitsValue(MemberTail(code))
  /\ Cardinality(DOMAIN users \ UserKeys) = tally["member:created"]

\* three registrations overlapped and completed out of the order of their
\* sequence values; all three members are stored
C19_Witness ==
  /\ tally["member:created"] = 3
  /\ Len(returned) = 3
  /\ returned[1].seq > returned[3].seq
  /\ "AIPSMEM10000" \in MemberCodes

(***************************************************************************)
(* Properties of the add request.                                          *)
(***************************************************************************)
\* the add form left the field out
Omitted(field) == norm(field) = ""

\* C20: an add request whose form carries a code leaves every counter as it
\* was and, when it stores a book, stores it under that code (trimmed); an add
\* request whose form leaves the code out stores its book under "AIPSLIB"
\* followed by the sequence it allocated, zero-padded on the left to 6 digits;
\* a book stored from a form that gives totalCopies and leaves availableCopies
\* out has availableCopies equal to its totalCopies, the number given.
C20_AddStoresCodeAndDefault ==
  [][ (trail' # trail /\ LastEntry'.op = "add") =>
        LET e == LastEntry'
            g == e.given
            code == e.after.BookID
            seq == Last(returned').seq
        IN  /\ ~Omitted(g.bookID) =>
                 /\ counters' = counters
                 /\ e.result = "created" => code = trim(g.bookID)
            /\ Omitted(g.bookID) =>
                 /\ Len(returned') = Len(returned) + 1
                 /\ Last(returned').ns = "AIPSLIB"
                 /\ seq = counters[BookPrefix]
                 /\ e.result = "created" =>
                      /\ SubSeq(code, 1, Len(BookPrefix)) = "AIPSLIB"
                      /\ IsDigits(CodeTail(code))
                      /\ DigitsValue(CodeTail(code)) = seq
                      /\ Len(CodeTail(code)) = Max(6, NumDigits(seq))
            /\ ( /\ e.result = "created"
                 /\ Omitted(g.availableCopies)
                 /\ ~Omitted(g.totalCopies) ) =>
                 /\ e.after.AvailableCopies = e.after.TotalCopies
                 /\ IsDigits(g.totalCopies) =>
                      e.after.AvailableCopies = DigitsValue(g.totalCopies)
            /\ e.result = "created" =>
                 \E k \in DOMAIN books' : Load(books', k) = e.after ]_vars

\* a book was added under the code "42" with no counter touched, then a book
\* was added with no code and no availableCopies and got "AIPSLIB000001" and
\* availableCopies 2 from totalCopies 2
C20_Witness ==
  /\ Len(trail) = 2
  /\ PrevEntry.op = "add"
  /\ PrevEntry.result = "created"
  /\ PrevEntry.given.bookID = "42"
  /\ PrevEntry.after.BookID = "42"
  /\ LastEntry.op = "add"
  /\ LastEntry.result = "created"
  /\ LastEntry.given = Given(NULL, "2", NULL)
  /\ LastEntry.after.BookID = "AIPSLIB000001"
  /\ LastEntry.after.TotalCopies = 2
  /\ LastEntry.after.AvailableCopies = 2
  /\ counters = (BookPrefix :> 1)

(***************************************************************************)
(* Properties of the failures of a creation.                               *)
(***************************************************************************)
\* the answer of the handler of a creation to an insert rejected with err
Caught(op, err) == IF op = "add" THEN addBookCatch(err) ELSE createMemberCatch(err)

BookCodes == {books[k].BookID : k \in DOMAIN books}

\* C21: a creation of a book or a member whose insert was rejected by the
\* unique index is answered with an outcome that is neither the validation
\* failure nor the answer the same handler gives to an insert rejected for
\* another reason, and no two stored books and no two stored members share
\* a code.
C21_DuplicateKeyDistinct ==
  /\ \A i \in DOMAIN trail :
       (trail[i].op \in {"add", "member"} /\ trail[i].err = DuplicateKeyError) =>
         /\ trail[i].result # "created"
         /\ trail[i].result # "invalid"
         /\ trail[i].result # Caught(trail[i].op, StoreError)
  /\ Cardinality(BookCodes) = Cardinality(DOMAIN books)
  /\ Cardinality(MemberCodes) = Cardinality(DOMAIN users)

\* the part of C21 about members and about what is stored
C21_MemberDuplicateDistinct ==
  /\ \A i \in DOMAIN trail :
       (trail[i].op = "member" /\ trail[i].err = DuplicateKeyError) =>
         /\ trail[i].result # "created"
         /\ trail[i].result # "invalid"
         /\ trail[i].result # Caught(trail[i].op, StoreError)
  /\ Cardinality(BookCodes) = Cardinality(DOMAIN books)
  /\ Cardinality(MemberCodes) = Cardinality(DOMAIN users)

(***************************************************************************)
(* Properties of the requests at the desk.                                 *)
(***************************************************************************)
\* no stored book answers the book reference t under any strategy
NoBookAnswers(t) == \A k \in DOMAIN books : StrategyOf(k, norm(t)) = NoStrategy

\* the entries of the trail that keep the book reference sent: the lookups,
\* and the issue, return and update requests that had no book to act on
HasToken(e) ==
  \/ e.op = "lookup"
  \/ (e.op \in {"issue", "return", "update"} /\ e.before = NoBook)

\* C23: an issue, return, update or lookup request whose book reference no
\* stored book answers reports notFound and changes no book (so no borrower
\* list), no counter and no member.
C23_MissingBookNoMutation ==
  [][ ( /\ trail' # trail
        /\ HasToken(LastEntry')
        /\ NoBookAnswers(LastEntry'.token) )
      => /\ LastEntry'.result = "notFound"
         /\ books' = books
         /\ counters' = counters
         /\ users' = users ]_vars

\* C23 for the book references the store can compile as a pattern
C23_MissingBookNoMutationPattern ==
  [][ ( /\ trail' # trail
        /\ HasToken(LastEntry')
        /\ NoBookAnswers(LastEntry'.token)
        /\ ValidPattern(norm(LastEntry'.token)) )
      => /\ LastEntry'.result = "notFound"
         /\ books' = books
         /\ counters' = counters
         /\ users' = users ]_vars

\* C23 without the outcome: whatever is reported, nothing is changed
C23_MissingBookFrame ==
  [][ ( /\ trail' # trail
        /\ HasToken(LastEntry')
        /\ NoBookAnswers(LastEntry'.token) )
      => /\ books' = books
         /\ counters' = counters
         /\ users' = users ]_vars

\* C24: no step of an update, issue, return or lookup request removes a book
\* or changes the code of a stored book.
C24_CodeImmutable ==
  [][ \A k \in DOMAIN books :
        /\ k \in DOMAIN books'
        /\ books'[k].BookID = books[k].BookID ]_vars

\* an update, an issue and a return have succeeded on the first book and a
\* lookup still finds it under its code
C24_Witness ==
  /\ tally["update:updated"] >= 1
  /\ tally["issue:success"] >= 1
  /\ tally["return:success"] >= 1
  /\ books[DeskKey].BookID = "AIPSLIB000042"
  /\ findBookByParam(books, "42") = DeskKey

\* the caller made exactly three requests on the first book, none in flight:
\* an issue that reported noCopiesAvailable, a return that succeeded, an issue
IssueReturnIssue ==
  /\ Len(trail) = 2
  /\ \A p \in Procs : req[p].pc = "idle"
  /\ tally["issue"] = 2
  /\ tally["return"] = 1
  /\ tally["update"] = 0
  /\ tally["lookup"] = 0
  /\ PrevEntry.op = "return"
  /\ PrevEntry.result = "success"
  /\ PrevEntry.before.key = DeskKey
  /\ PrevEntry.before.TotalCopies > 0
  /\ LastEntry.op = "issue"
  /\ LastEntry.before.key = DeskKey
  /\ tally["issue:noCopiesAvailable"] =
       1 + (IF LastEntry.result = "noCopiesAvailable" THEN 1 ELSE 0)

\* C26: when an issue on a book with totalCopies > 0 reported
\* noCopiesAvailable and a return on that book then succeeded, the issue
\* made next on that book reports success.
C26_Recoverable == IssueReturnIssue => LastEntry.result = "success"

\* C26 for a book that was stored with availableCopies >= 0
C26_RecoverableFromValid ==
  (IssueReturnIssue /\ avail0 >= 0) => LastEntry.result = "success"

\* the three requests were made on a book stored with no copy available
C26_Reached == IssueReturnIssue /\ avail0 = 0 /\ LastEntry.result = "success"

\* C27: a lookup changes no book, no counter and no member, and when it
\* finds a book it reports the stored totalCopies as total, the stored
\* availableCopies as available, and canIssue true exactly when available > 0.
C27_LookupReadOnly ==
  [][ (trail' # trail /\ LastEntry'.op = "lookup") =>
        /\ books' = books
        /\ counters' = counters
        /\ users' = users
        /\ LastEntry'.result = "found" =>
             LET b == books[LastEntry'.after.key]
                 d == LastEntry'.data
             IN  /\ d.total = b.TotalCopies
                 /\ d.available = b.AvailableCopies
                 /\ d.canIssue = (d.available > 0) ]_vars

\* after an issue took the only copy of the first book, a lookup by its
\* number reported total 1, available 0 and canIssue false
C27_Witness ==
  /\ Len(trail) = 1
  /\ LastEntry.op = "lookup"
  /\ LastEntry.token = "42"
  /\ LastEntry.result = "found"
  /\ LastEntry.data = [total |-> 1, available |-> 0, canIssue |-> FALSE]
  /\ tally["issue:success"] = 1
  /\ books[DeskKey].AvailableCopies = 0

\* caller p's issue request updates the book in this step and reports success
IssueSucceeds(p) ==
  /\ req[p].op = "issue"
  /\ req[p].pc = "update"
  /\ req'[p].pc = "idle"
  /\ tally'["issue:success"] = tally["issue:success"] + 1

\* C28: the step in which an issue succeeds lowers availableCopies of the
\* issued book by exactly 1, appends the member at the end of its borrower
\* list when a member reference was sent and is the _id of a member (and
\* leaves the list as it was otherwise), and changes neither the book's
\* totalCopies or code, nor any other book, counter or member.
C28_IssueChangesOnly ==
  [][ \A p \in Procs :
        IssueSucceeds(p) =>
          LET k == req[p].book.key
              u == req[p].userId
          IN  /\ DOMAIN books' = DOMAIN books
              /\ books'[k].AvailableCopies = books[k].AvailableCopies - 1
              /\ books'[k].borrowers =
                   IF u # NULL /\ u \in DOMAIN users
                   THEN books[k].borrowers \o <<u>>
                   ELSE books[k].borrowers
              /\ books'[k].TotalCopies = books[k].TotalCopies
              /\ books'[k].BookID = books[k].BookID
              /\ \A o \in DOMAIN books \ {k} : books'[o] = books[o]
              /\ counters' = counters
              /\ users' = users ]_vars

\* two issues succeeded on the first book, the second for another member,
\* who stands last on the borrower list; the second book is as it was
C28_Witness ==
  /\ tally["issue:success"] = 2
  /\ Len(books[DeskKey].borrowers) = 2
  /\ books[DeskKey].borrowers[1] # books[DeskKey].borrowers[2]
  /\ LastEntry.op = "issue"
  /\ LastEntry.userId = books[DeskKey].borrowers[2]
  /\ books[DeskKey].AvailableCopies = 0
  /\ books[DeskKey].TotalCopies = 2
  /\ books[BookKeys[2]] = NewBook("AIPSLIB000007", Some(1), Some(1))

\* the caller's last two requests were a lookup that found a book and then
\* an issue on that book
LookupThenIssue ==
  /\ Len(trail) = 2
  /\ PrevEntry.op = "lookup"
  /\ PrevEntry.result = "found"
  /\ LastEntry.op = "issue"
  /\ LastEntry.before.key = PrevEntry.after.key

\* C29: when a lookup that finds a book is followed at once by an issue on
\* that book, the lookup reported canIssue true exactly when the issue
\* reports success, and canIssue false exactly when the issue reports
\* noCopiesAvailable.
C29_LookupAgreesWithIssue ==
  LookupThenIssue =>
    /\ PrevEntry.data.canIssue <=> LastEntry.result = "success"
    /\ ~PrevEntry.data.canIssue <=> LastEntry.result = "noCopiesAvailable"

\* a lookup reported canIssue false on a book with copies but none left,
\* and the issue made next reported noCopiesAvailable
C29_Witness ==
  /\ LookupThenIssue
  /\ PrevEntry.data = [total |-> 1, available |-> 0, canIssue |-> FALSE]
  /\ LastEntry.result = "noCopiesAvailable"
  /\ tally["issue:success"] = 1

\* C30: while one caller makes issue and return requests one after the
\* other on a book added with totalCopies = T > 0 and availableCopies = T,
\* the total stays T and availableCopies is T minus the number of issues
\* that succeeded plus the number of returns that succeeded.
C30_CountIsLedger ==
  /\ books[LedgerKey].TotalCopies = avail0
  /\ books[LedgerKey].AvailableCopies =
       avail0 - (tally["issue:success"] - tally["return:success"])

\* both copies were issued, a third issue was refused, and both came back
C30_Witness ==
  /\ avail0 = 2
  /\ tally["issue:success"] = 2
  /\ tally["issue:noCopiesAvailable"] = 1
  /\ tally["return:success"] = 2
  /\ books[LedgerKey].AvailableCopies = 2

(***************************************************************************)
(* Properties of the namespaces.                                           *)
(***************************************************************************)
\* the sequence of a namespace, 0 while it has no counter document
SeqOf(cs, ns) == IF ns \in DOMAIN cs THEN cs[ns] ELSE 0

\* caller p starts an allocation in this step
Allocates(p) == req[p].op = "idle" /\ req'[p].op = "allocate"

\* C25: a step of an allocation on one namespace leaves every other
\* namespace as it was (its sequence, and whether it has a counter document
\* at all), and no step of an allocation creates or changes a book or a
\* member.
C25_NamespacesIndependent ==
  [][ /\ books' = books
      /\ users' = users
      /\ \A p \in Procs :
           Allocates(p) =>
             \A ns \in Namespaces \ {req'[p].ns} :
               /\ SeqOf(counters', ns) = SeqOf(counters, ns)
               /\ ns \in DOMAIN counters' <=> ns \in DOMAIN counters
      /\ (\A p \in Procs : ~Allocates(p)) => counters' = counters ]_vars

\* "AIPSMEM" went from 9 to 11 and "AIPSLIB" from nothing to 1, and the
\* store holds no book and no member
C25_Witness ==
  /\ fresh = {BookPrefix}
  /\ counters = (MemberPrefix :> 11) @@ (BookPrefix :> 1)
  /\ Len(returned) = 3
  /\ books = << >>
  /\ users = << >>

(***************************************************************************)
(* Properties of a deleted book.                                           *)
(***************************************************************************)
\* the references of the deleted book with _id k: its _id and its code
RefsOf(k) == {k, deleted[k]}

\* a request that started in this step, with a reference of a deleted book,
\* and has been answered
AsksForDeleted ==
  /\ started' = started + 1
  /\ trail' # trail
  /\ HasToken(LastEntry')
  /\ \E k \in DOMAIN deleted : LastEntry'.token \in RefsOf(k)

\* C31: a deleted book is never in the store again, whatever the issue,
\* return and update requests write that had resolved it before the delete;
\* and every issue, return, update or lookup request that starts after the
\* delete with the _id or the code of the deleted book reports notFound.
C31_DeletedBookGone ==
  [][ /\ \A k \in DOMAIN deleted' : k \notin DOMAIN books'
      /\ AsksForDeleted => LastEntry'.result = "notFound" ]_vars

\* the first half of C31: no write brings a deleted book back
C31_DeletedStaysDeleted ==
  \A k \in DOMAIN deleted : k \notin DOMAIN books

\* the second half of C31 for the references the store can compile as a pattern
C31_DeletedBookGonePattern ==
  [][ (AsksForDeleted /\ ValidPattern(norm(LastEntry'.token)))
      => LastEntry'.result = "notFound" ]_vars

\* the second half of C31 without the outcome: the request changes nothing
C31_DeletedBookFrame ==
  [][ AsksForDeleted => (books' = books /\ counters' = counters /\ users' = users) ]_vars

\* a return or an update that had loaded the first book wrote after the
\* book was deleted, and its save() failed
C31_WroteAfterDelete ==
  /\ Len(trail) = 2
  /\ trail[1].op = "delete"
  /\ trail[1].before.key = DeskKey
  /\ trail[2].op \in {"return", "update"}
  /\ trail[2].before.key = DeskKey
  /\ trail[2].result \in {"error", "failed"}
  /\ DeskKey \in DOMAIN deleted

\* an issue that had loaded the first book made its conditional update
\* after the book was deleted, and no document matched
C31_IssuedAfterDelete ==
  /\ Len(trail) = 2
  /\ trail[1].op = "delete"
  /\ trail[1].before.key = DeskKey
  /\ trail[2].op = "issue"
  /\ trail[2].before.key = DeskKey
  /\ trail[2].before.AvailableCopies > 0
  /\ trail[2].result = "noCopiesAvailable"

\* a request with the code of the deleted first book was answered notFound
C31_AskedAfterDelete ==
  /\ Len(trail) = 2
  /\ trail[1].op = "delete"
  /\ trail[1].before.key = DeskKey
  /\ trail[2].op \in {"issue", "return", "update"}
  /\ trail[2].before = NoBook
  /\ trail[2].token = deleted[DeskKey]
  /\ trail[2].result = "notFound"

(***************************************************************************)
(* Properties of the admin gate.                                           *)
(***************************************************************************)
\* the routes behind the gate
GatedRoutes ==
  {"GET /admin/dashboard", "GET /members/add", "GET /members/list", "POST /members/add"}

\* the isAdmin cookie the request carries is "1"
SendsAdmin ==
  \E i \in DOMAIN jar :
    /\ jar[i] = Cookie("isAdmin", "1")
    /\ \A j \in 1..(i - 1) : jar[j].name # "isAdmin"

\* the browser holds an isAdmin cookie after the step
HoldsAdmin == \E i \in DOMAIN jar' : jar'[i].name = "isAdmin"

\* a request starts in this step, and it is for the login form, a login, a logout
Begins == started' = started + 1
ToLoginForm == tally'["loginForm"] = tally["loginForm"] + 1
ToLogin == tally'["login"] = tally["login"] + 1
ToLogout == tally'["logout"] = tally["logout"] + 1
\* a request for one of the routes behind the gate starts in this step
ToGated == Begins /\ ~ToLoginForm /\ ~ToLogin /\ ~ToLogout

\* C32: a request for /admin/dashboard, GET or POST /members/add or
\* /members/list whose isAdmin cookie is not "1" is redirected to
\* /admin/login and changes nothing (no member, no counter, no request left
\* in flight, no cookie), and a member is stored only for a request that
\* carried the cookie; the browser comes to hold isAdmin = "1" only by a
\* login with the configured name and password, its cookies change in no
\* other request than such a login and a logout, and after a logout it
\* holds no isAdmin cookie.
C32_AdminGate ==
  [][ /\ (ToGated /\ ~SendsAdmin) =>
           /\ LastEntry'.op \in GatedRoutes
           /\ LastEntry'.result = "redirect:/admin/login"
           /\ users' = users
           /\ counters' = counters
           /\ books' = books
           /\ returned' = returned
           /\ req' = req
           /\ tally' = tally
           /\ jar' = jar
      /\ (users' # users \/ counters' # counters) => SendsAdmin
      /\ jar' # jar =>
           \/ /\ ToLogin
              /\ LastEntry'.name = ADMIN_USERNAME
              /\ LastEntry'.password = ADMIN_PASSWORD
              /\ jar' = Append(Without(jar, "isAdmin"), Cookie("isAdmin", "1"))
           \/ ToLogout
      /\ ToLogout => ~HoldsAdmin ]_vars

\* after a login and a logout the browser holds no isAdmin cookie, a
\* request to register a member was sent to the login page, and no member
\* and no counter exists
C32_Witness ==
  /\ started = 3
  /\ tally["login:ok"] = 1
  /\ tally["logout"] = 1
  /\ LastEntry.op = "POST /members/add"
  /\ LastEntry.result = "redirect:/admin/login"
  /\ CookieParse(jar, "isAdmin") = NULL
  /\ users = << >>
  /\ counters = << >>

\* a member is registered by a browser that logged in
C32_Admitted ==
  /\ tally["login:ok"] = 1
  /\ tally["member:created"] = 1
  /\ Cardinality(DOMAIN users) = 1

\* a browser that never logged in and sends isAdmin = "1" is shown the dashboard
C32_AdmittedByHand ==
  /\ tally["login"] = 0
  /\ Len(trail) = 1
  /\ LastEntry.op = "GET /admin/dashboard"
  /\ LastEntry.result = "render:welcome"

====
